---- MODULE Spec2Model ----
(***************************************************************************)
(* dn42-wiki-go: the content synchronisation and atomic publish pipeline.  *)
(*                                                                         *)
(* Modelled components                                                     *)
(*   gitutil.Repository   the mutex-serialised wrapper around git          *)
(*   site.Service         SavePage / RenamePage / Pull / BuildStatic       *)
(*   site.SearchCatalog   the in-memory search index payload               *)
(*                                                                         *)
(* A process is either an editor (one HTTP request running SavePage or     *)
(* RenamePage) or a puller (pullLoop, the webhook handler or the poller,   *)
(* all of which call Service.Pull), or Server.Start with its startup build. *)
(* pc[p] names the statement the process executes next; for a git command  *)
(* it names the command that is running.                                   *)
(*                                                                         *)
(* A commit is the set of <<path, version>> pairs it changes (version 0 is *)
(* a deletion); a branch is the sequence of its commits from the root, so  *)
(* the "hash" of a commit is the whole sequence up to it.  Commits made on *)
(* the remote by other clones touch RemotePath only, so that pulls never   *)
(* stop on a content conflict.                                             *)
(***************************************************************************)
EXTENDS Integers, Sequences, FiniteSets, TLC

\* ---------------------------------------------------------------- bounds
MaxRemote == 1

MaxPulls == 1

\* calls of Service.Pull in a run without edit requests
MaxPullsInARow == 2

\* characters of a request path
MaxPathLen == 4

\* instants at which an operation starts, configured timeouts, and offsets
\* of a caller's deadline
MaxClock == 2

MaxTimeout == 3

MaxDeadline == 2

\* builds of each updater of the caches
MaxUpdates == 1

\* the largest of the small integers encoded, the distance from 2^53 of
\* the large ones, and the length of a position list
MaxSmall == 40

MaxNear == 2

MaxPositions == 3

\* the postings of a term handed to the codec
MaxPostings == 2

\* the content tokens of a page handed to the index builder
MaxTokens == 51

\* ------------------------------------------------------------- processes
Editors == {"e1", "e2"}

Pullers == {"t1"}

\* Server.Start, which runs BuildStatic once before it serves requests
Starter == "main"

Procs == Editors \cup Pullers \cup {Starter}

\* ----------------------------------------------------------------- paths
EditPaths == {"p", "q"}

RemotePath == "r"

Paths == EditPaths \cup {RemotePath}

EmptyTree == [x \in Paths |-> 0]

\* the commit every clone starts from: page p and the remote-maintained file
BaseCommit == {<<"p", 1>>, <<RemotePath, 1>>}

\* ------------------------------------------------------- git object model
RECURSIVE TreeOf(_)
TreeOf(h) ==
  IF h = <<>> THEN EmptyTree
  ELSE ([x \in Paths |-> IF \E pr \in (h[Len(h)]) : pr[1] = x THEN (CHOOSE pr \in (h[Len(h)]) : pr[1] = x)[2] ELSE (TreeOf(SubSeq(h, 1, Len(h) - 1)))[x]])

IsPrefix(a, b) == Len(a) <= Len(b) /\ SubSeq(b, 1, Len(a)) = a

RECURSIVE CommonLen(_, _)
CommonLen(a, b) ==
  IF a = <<>> \/ b = <<>> \/ a[1] /= b[1] THEN 0
  ELSE 1 + CommonLen(Tail(a), Tail(b))

\* what a checkout of history new over history old does to a tree of the
\* working copy (index or work tree): the paths the move changes are updated
CheckoutTo(t, old, new) ==
  [x \in Paths |-> IF TreeOf(old)[x] /= TreeOf(new)[x]
                   THEN TreeOf(new)[x] ELSE t[x]]

\* ------------------------------------------------------------ directories
NoDir == [exists |-> FALSE, src |-> EmptyTree, pages |-> FALSE, index |-> FALSE, assets |-> FALSE]

\* a snapshot is complete when pages, search-index.json and assets are written
Complete(d) == d.exists /\ d.pages /\ d.index /\ d.assets

FullSnapshot(t) == [exists |-> TRUE, src |-> t, pages |-> TRUE, index |-> TRUE, assets |-> TRUE]

VARIABLES
  hasRemote,      \* cfg.Git.Remote is not blank
  remote,         \* the branch on the remote
  tracking,       \* the remote-tracking ref of the local clone (@{u})
  head,           \* the local branch (HEAD)
  headAt1,        \* HEAD@{1} of the reflog: <<>> or <<history>>
  idx,            \* the git index
  wt,             \* the files of the working tree
  nextVer,        \* next unused content version
  repoMu,         \* Repository.mu: "free" or its holder
  writeMu,        \* Service.writeMu: "free" or its holder
  pc,             \* per process: the statement it executes next
  op,             \* per editor: "save", "rename" or "none"
  arg,            \* per editor: rel, the normalized path of the request
  prev,           \* per puller: Pull's prev hash
  startHead,      \* per editor: HEAD as the transaction's freshness check saw it
  result,         \* per editor: the value the transaction returns
  temp,           \* per process: BuildStatic's tempDir
  files,          \* per process: BuildStatic's files
  docs,           \* per process: BuildStatic's docs
  outputDir,      \* cfg.OutputDir on disk
  backupDir,      \* cfg.OutputDir + ".old" on disk
  searchPayload,  \* SearchCatalog.payload
  remoteCount,    \* commits other clones have pushed so far
  pullCount,      \* calls of Service.Pull so far
  fnIn,           \* pure functions: the arguments of the call under check
  fnOut,          \* pure functions: what the calls returned
  fnStep,         \* pure functions: which call comes next
  layoutMu,       \* LayoutCache.mu: the writer and the readers holding it
  layoutSnap,     \* LayoutCache.snapshot, field by field
  catalogMu,      \* SearchCatalog.mu: the writer and the readers holding it
  catalogPayload, \* SearchCatalog.payload: the slice header
  heap,           \* the byte arrays slices point to, by address
  cpc,            \* per cache client: the statement it executes next
  clocal          \* per cache client: its local variables

\* the repository, the service and their processes
serviceVars == <<hasRemote, remote, tracking, head, headAt1, idx, wt, nextVer,
                 repoMu, writeMu, pc, op, arg, prev, startHead, result, temp, files, docs,
                 outputDir, backupDir, searchPayload, remoteCount, pullCount>>

fnVars == <<fnIn, fnOut, fnStep>>

cacheVars == <<layoutMu, layoutSnap, catalogMu, catalogPayload, heap, cpc, clocal>>

vars == <<serviceVars, fnVars, cacheVars>>

\* ----------------------------------------------------------- cache clients
\* a build, which calls LayoutCache.Update and then SearchCatalog.Update
CacheUpdaters == {"u1", "u2"}

\* a request, which calls LayoutCache.Snapshot or SearchCatalog.Snapshot
CacheReaders == {"s1", "s2"}

\* no pure function is under check
FnIdle == fnIn = <<>> /\ fnOut = <<>> /\ fnStep = "none"

\* the caches as newLayoutCache and newSearchCatalog leave them (free locks,
\* the zero LayoutSnapshot, the nil slice) and no client under way. The
\* locals of a client: the update it performs (id, data, rounds done), the
\* LayoutSnapshot it copies out, the array it allocated, its index and
\* count in a loop, the source array of a copy, and what it returned
CacheIdle ==
  LET zero == [Header |-> 0, Footer |-> 0, ServerFooter |-> 0, Sidebar |-> 0]
  IN  /\ layoutMu = [writer |-> "none", readers |-> {}]
      /\ layoutSnap = zero
      /\ catalogMu = [writer |-> "none", readers |-> {}]
      /\ catalogPayload = [ptr |-> 0, len |-> 0]
      /\ heap = <<>>
      /\ cpc = [c \in CacheUpdaters \cup CacheReaders |-> "none"]
      /\ clocal = [c \in CacheUpdaters \cup CacheReaders |->
                     [id |-> 0, rounds |-> 0, data |-> <<>>, snap |-> zero, arr |-> 0,
                      n |-> 0, len |-> 0, ptr |-> 0, ret |-> 0, got |-> <<>>]]

\* the server is up, nothing is under way and no request arrives
ServiceIdle ==
  /\ hasRemote = FALSE
  /\ head = <<BaseCommit>>
  /\ remote = <<>>
  /\ tracking = <<>>
  /\ headAt1 = <<>>
  /\ idx = TreeOf(head)
  /\ wt = TreeOf(head)
  /\ nextVer = 2
  /\ repoMu = "free"
  /\ writeMu = "free"
  /\ pc = [p \in Procs |-> IF p \in Pullers THEN "idle" ELSE "done"]
  /\ op = [e \in Editors |-> "none"]
  /\ arg = [e \in Editors |-> "-"]
  /\ prev = [p \in Pullers |-> <<>>]
  /\ startHead = [e \in Editors |-> <<>>]
  /\ result = [e \in Editors |-> "none"]
  /\ temp = [p \in Procs |-> NoDir]
  /\ files = [p \in Procs |-> {}]
  /\ docs = [p \in Procs |-> EmptyTree]
  /\ outputDir = FullSnapshot(TreeOf(head))
  /\ backupDir = NoDir
  /\ searchPayload = [set |-> TRUE, src |-> TreeOf(head)]
  /\ remoteCount = 0
  /\ pullCount = 0

Init ==
  /\ hasRemote \in BOOLEAN
  /\ head \in (IF hasRemote THEN {<<BaseCommit>>} ELSE {<<>>, <<BaseCommit>>})
  /\ remote = (IF hasRemote THEN <<BaseCommit>> ELSE <<>>)
  /\ tracking = remote
  /\ headAt1 = <<>>
  /\ idx = TreeOf(head)
  /\ wt = TreeOf(head)
  /\ nextVer = 2
  /\ repoMu = "free"
  /\ writeMu = "free"
  /\ pc = [p \in Procs |-> IF p = Starter THEN "b_start" ELSE "idle"]
  /\ op = [e \in Editors |-> "none"]
  /\ arg = [e \in Editors |-> "-"]
  /\ prev = [p \in Pullers |-> <<>>]
  /\ startHead = [e \in Editors |-> <<>>]
  /\ result = [e \in Editors |-> "none"]
  /\ temp = [p \in Procs |-> NoDir]
  /\ files = [p \in Procs |-> {}]
  /\ docs = [p \in Procs |-> EmptyTree]
  /\ outputDir \in {NoDir, FullSnapshot(TreeOf(<<BaseCommit>>))}
  /\ backupDir = NoDir
  /\ searchPayload = ([set |-> FALSE, src |-> EmptyTree])
  /\ remoteCount = 0
  /\ pullCount = 0
  /\ FnIdle
  /\ CacheIdle

\* ------------------------------------------------------------------ locks
\* a lock that never blocks
CanLockRepoUnguarded == TRUE

\* sync.Mutex.Lock on Repository.mu blocks until the mutex is free
CanLockRepo == repoMu = "free"

\* a lock that never blocks
CanLockWriteUnguarded == TRUE

\* sync.Mutex.Lock on Service.writeMu blocks until the mutex is free
CanLockWrite == writeMu = "free"

Goto(self, next) == pc' = [pc EXCEPT ![self] = next]

\* an editor's transaction returns res; the deferred writeMu.Unlock follows
TxReturn(self, res) ==
  /\ pc' = [pc EXCEPT ![self] = "tx_unlock"]
  /\ result' = [result EXCEPT ![self] = res]

\* ------------------------------------------------- Repository.RemoteAhead
RemoteAheadLocked(trk, h) == (Len(trk) - CommonLen(trk, h)) > 0

\* a freshness check that lets a stale repository through
EnsureRepositoryFreshAlwaysOk(stale) == "ok"

\* ensureRepositoryFresh: a stale repository is ErrRepositoryBehind
EnsureRepositoryFresh(stale) == IF stale THEN "behind" ELSE "ok"

\* RemoteAhead with no remote configured returns false without locking
Fresh_NoRemote(self) ==
  /\ pc[self] = "fresh"
  /\ ~hasRemote
  /\ startHead' = [startHead EXCEPT ![self] = head]
  /\ Goto(self, IF op[self] = "save" THEN "sp_mutate" ELSE "rn_validate")
  /\ UNCHANGED <<hasRemote, fnVars, cacheVars, remote, tracking, head, headAt1, idx, wt,
                 nextVer, repoMu, writeMu, op, arg, result, prev, temp, files, docs, outputDir,
                 backupDir, searchPayload, remoteCount, pullCount>>

\* r.mu.Lock() at the head of a Repository operation: RemoteAhead, which
\* ensureRepositoryFresh ("fresh") and finalizeCommit ("fin") call when a
\* remote is configured, Rename, CommitChanges, Push, ResetSoft and Pull;
\* the command of the operation starts with the mutex held
Repo_Lock(self) ==
  /\ \E step \in {<<"fresh", "fresh_fetch">>, <<"fin", "fin_fetch">>, <<"rn_validate", "mv_cmd">>,
                  <<"ci_lock", "ci_add">>, <<"push_lock", "push_cmd">>, <<"rb_lock", "rb_reset">>,
                  <<"pl_lock", "pl_revparse">>} :
        /\ pc[self] = step[1]
        /\ Goto(self, step[2])
  /\ pc[self] \in {"fresh", "fin"} => hasRemote
  /\ CanLockRepo
  /\ repoMu' = self
  /\ UNCHANGED <<hasRemote, fnVars, cacheVars, remote, tracking, head, headAt1, idx, wt,
                 nextVer, writeMu, op, arg, startHead, result, prev, temp, files, docs,
                 outputDir, backupDir, searchPayload, remoteCount, pullCount>>

\* fetchLocked succeeded: the tracking ref follows the remote
\* fetchLocked failed: RemoteAhead returns the error, the caller returns it
RemoteAhead_Fetch(self) ==
  \/ /\ pc[self] \in {"fresh_fetch", "fin_fetch"}
     /\ tracking' = remote
     /\ Goto(self, IF pc[self] = "fresh_fetch" THEN "fresh_revlist" ELSE "fin_revlist")
     /\ UNCHANGED <<hasRemote, fnVars, cacheVars, remote, head, headAt1, idx, wt, nextVer,
                    repoMu, writeMu, op, arg, startHead, result, prev, temp, files, docs,
                    outputDir, backupDir, searchPayload, remoteCount, pullCount>>
  \/ /\ pc[self] \in {"fresh_fetch", "fin_fetch"}
     /\ repoMu' = "free"
     /\ TxReturn(self, "error")
     /\ UNCHANGED <<hasRemote, fnVars, cacheVars, remote, tracking, head, headAt1, idx, wt,
                    nextVer, writeMu, op, arg, startHead, prev, temp, files, docs, outputDir,
                    backupDir, searchPayload, remoteCount, pullCount>>

\* -------------------------------------------- SavePage / RenamePage entry
SavePage_Begin(self) ==
  /\ pc[self] = "idle"
  /\ (pc[Starter] = "done" /\ (self = "e1" \/ pc["e1"] /= "idle"))
  /\ op' = [op EXCEPT ![self] = "save"]
  /\ Goto(self, "tx_lock")
  /\ UNCHANGED <<hasRemote, fnVars, cacheVars, remote, tracking, head, headAt1, idx, wt,
                 nextVer, repoMu, writeMu, arg, startHead, result, prev, temp, files, docs,
                 outputDir, backupDir, searchPayload, remoteCount, pullCount>>

\* RenamePage rejects a blank newPath before it takes the write lock
RenamePage_Begin(self) ==
  /\ pc[self] = "idle"
  /\ (pc[Starter] = "done" /\ (self = "e1" \/ pc["e1"] /= "idle"))
  /\ \E blank \in BOOLEAN :
       IF blank
       THEN Goto(self, "done") /\ UNCHANGED op
       ELSE op' = [op EXCEPT ![self] = "rename"] /\ Goto(self, "tx_lock")
  /\ UNCHANGED <<hasRemote, fnVars, cacheVars, remote, tracking, head, headAt1, idx, wt,
                 nextVer, repoMu, writeMu, arg, startHead, result, prev, temp, files, docs,
                 outputDir, backupDir, searchPayload, remoteCount, pullCount>>

\* s.writeMu.Lock()
Tx_Lock(self) ==
  /\ pc[self] = "tx_lock"
  /\ CanLockWrite
  /\ writeMu' = self
  /\ Goto(self, "fresh")
  /\ UNCHANGED <<hasRemote, fnVars, cacheVars, remote, tracking, head, headAt1, idx, wt,
                 nextVer, repoMu, op, arg, startHead, result, prev, temp, files, docs,
                 outputDir, backupDir, searchPayload, remoteCount, pullCount>>

\* a return that keeps the write lock
Tx_UnlockKeepingLock(self) ==
  /\ pc[self] = "tx_unlock"
  /\ Goto(self, "done")
  /\ UNCHANGED <<hasRemote, fnVars, cacheVars, remote, tracking, head, headAt1, idx, wt,
                 nextVer, repoMu, writeMu, op, arg, startHead, result, prev, temp, files, docs,
                 outputDir, backupDir, searchPayload, remoteCount, pullCount>>

\* defer s.writeMu.Unlock()
Tx_Unlock(self) ==
  /\ pc[self] = "tx_unlock"
  /\ writeMu' = "free"
  /\ op' = [op EXCEPT ![self] = "none"]
  /\ arg' = [arg EXCEPT ![self] = "-"]
  /\ startHead' = [startHead EXCEPT ![self] = <<>>]
  /\ result' = [result EXCEPT ![self] = "none"]
  /\ Goto(self, "done")
  /\ UNCHANGED <<hasRemote, fnVars, cacheVars, remote, tracking, head, headAt1, idx, wt,
                 nextVer, repoMu, prev, temp, files, docs, outputDir, backupDir, searchPayload,
                 remoteCount, pullCount>>

\* ---------------------------------------------------- freshness check
Fresh_RevList(self) ==
  /\ pc[self] = "fresh_revlist"
  /\ repoMu' = "free"
  /\ startHead' = [startHead EXCEPT ![self] = head]
  /\ IF EnsureRepositoryFresh(RemoteAheadLocked(tracking, head)) = "behind"
     THEN TxReturn(self, "behind")
     ELSE Goto(self, IF op[self] = "save" THEN "sp_mutate" ELSE "rn_validate") /\ UNCHANGED result
  /\ UNCHANGED <<hasRemote, fnVars, cacheVars, remote, tracking, head, headAt1, idx, wt,
                 nextVer, writeMu, op, arg, prev, temp, files, docs, outputDir, backupDir,
                 searchPayload, remoteCount, pullCount>>

\* ------------------------------------------------------------ strings
\* a string is the sequence of its characters
Str_md == <<".", "m", "d">>

ToLower(s) == [i \in 1..Len(s) |-> (IF s[i] = "M" THEN "m" ELSE IF s[i] = "D" THEN "d" ELSE IF s[i] = "H" THEN "h" ELSE s[i])]

HasPrefix(s, pre) == Len(pre) <= Len(s) /\ SubSeq(s, 1, Len(pre)) = pre

HasSuffix(s, suf) == Len(suf) <= Len(s) /\ SubSeq(s, Len(s) - Len(suf) + 1, Len(s)) = suf

TrimPrefix(s, pre) == IF HasPrefix(s, pre) THEN SubSeq(s, Len(pre) + 1, Len(s)) ELSE s

Contains(s, sub) == \E i \in 1..(Len(s) - Len(sub) + 1) : SubSeq(s, i, i + Len(sub) - 1) = sub

RECURSIVE TrimLeft(_, _)
TrimLeft(s, c) == IF s /= <<>> /\ s[1] = c THEN TrimLeft(Tail(s), c) ELSE s

RECURSIVE TrimRight(_, _)
TrimRight(s, c) ==
  IF s /= <<>> /\ s[Len(s)] = c THEN TrimRight(SubSeq(s, 1, Len(s) - 1), c) ELSE s

\* strings.TrimSpace; the blank is the only white space of the model's strings
TrimSpace(s) == TrimRight(TrimLeft(s, " "), " ")

\* strings.ReplaceAll(s, old, new) for patterns of one character
ReplaceAll(s, old, new) == [i \in 1..Len(s) |-> IF s[i] = old THEN new ELSE s[i]]

\* filepath.ToSlash where the separator of the operating system is '/'
ToSlash(s) == ReplaceAll(s, "/", "/")

\* ------------------------------------------------------- reserved routes
reservedRouteNames ==
  {<<"i", "n", "d", "e", "x">>,
   <<"_", "s", "i", "d", "e", "b", "a", "r">>,
   <<"_", "f", "o", "o", "t", "e", "r">>,
   <<"4", "0", "4">>,
   <<"4", "0", "3">>,
   <<"_", "h", "e", "a", "d", "e", "r">>,
   <<"l", "a", "y", "o", "u", "t">>,
   <<"r", "e", "a", "d", "m", "e">>,
   <<"s", "e", "a", "r", "c", "h", "-", "i", "n", "d", "e", "x">>,
   <<"d", "i", "r", "e", "c", "t", "o", "r", "y">>,
   <<"g", "o", "l", "l", "u", "m">>,
   <<"r", "o", "o", "t">>,
   <<"d", "e", "f", "a", "u", "l", "t">>,
   <<"a", "s", "s", "e", "t", "s">>,
   <<"a", "p", "i">>}

\* isReservedPath: a root-level name, compared in lower case without .md
isReservedPath(rel) ==
  LET trimmed == TrimPrefix(ToLower(ToSlash(TrimSpace(rel))), <<"/">>)
      lowered == IF HasSuffix(trimmed, Str_md) THEN SubSeq(trimmed, 1, Len(trimmed) - 3) ELSE trimmed
  IN  IF Contains(lowered, <<"/">>) THEN FALSE ELSE lowered \in reservedRouteNames

\* the repository-relative file each path of the model stands for
FileName ==
  [x \in Paths |-> IF x = "p" THEN <<"d", "i", "r", "e", "c", "t", "o", "r", "y", ".", "m", "d">>
                   ELSE IF x = "q" THEN <<"p", "a", "g", "e", ".", "m", "d">>
                   ELSE <<"r", "e", "m", "o", "t", "e", ".", "m", "d">>]

\* a reserved-name check that forgets whether the file exists
ReservedRejectsAlways(exists, reserved) == reserved

\* if !exists && isReservedPath(rel): the save is rejected
ReservedRejects(exists, reserved) == ~exists /\ reserved

\* ------------------------------------------------------ SavePage: mutate
\* normalizeRelPath and ensureRouteAccessible reject the request of
\* SavePage ("sp_mutate") or RenamePage ("rn_validate") before anything is
\* written
Tx_Reject(self) ==
  /\ pc[self] \in {"sp_mutate", "rn_validate"}
  /\ TxReturn(self, "invalid")
  /\ UNCHANGED <<hasRemote, fnVars, cacheVars, remote, tracking, head, headAt1, idx, wt,
                 nextVer, repoMu, writeMu, op, arg, startHead, prev, temp, files, docs,
                 outputDir, backupDir, searchPayload, remoteCount, pullCount>>

\* the path does not exist and its name is reserved: ErrReservedPath
SavePage_Reserved(self) ==
  /\ pc[self] = "sp_mutate"
  /\ \E path \in EditPaths :
       /\ ReservedRejects((wt[path] /= 0), isReservedPath(FileName[path]))
       /\ arg' = [arg EXCEPT ![self] = path]
  /\ TxReturn(self, "reserved")
  /\ UNCHANGED <<hasRemote, fnVars, cacheVars, remote, tracking, head, headAt1, idx, wt,
                 nextVer, repoMu, writeMu, op, startHead, prev, temp, files, docs, outputDir,
                 backupDir, searchPayload, remoteCount, pullCount>>

\* documents.Write, then composeCommitMessage: the file is written before
\* the commit message is checked
SavePage_Write(self) ==
  /\ pc[self] = "sp_mutate"
  /\ \E path \in EditPaths, fresh \in BOOLEAN, msgOK \in BOOLEAN :
       /\ fresh \/ wt[path] /= 0
       /\ ~ReservedRejects((wt[path] /= 0), isReservedPath(FileName[path]))
       /\ wt' = [wt EXCEPT ![path] = IF fresh THEN nextVer ELSE @]
       /\ nextVer' = IF fresh THEN nextVer + 1 ELSE nextVer
       /\ IF msgOK
          THEN /\ arg' = [arg EXCEPT ![self] = path]
               /\ Goto(self, "ci_lock")
               /\ UNCHANGED result
          ELSE TxReturn(self, "nomsg") /\ UNCHANGED arg
  /\ UNCHANGED <<hasRemote, fnVars, cacheVars, remote, tracking, head, headAt1, idx, repoMu,
                 writeMu, op, startHead, prev, temp, files, docs, outputDir, backupDir,
                 searchPayload, remoteCount, pullCount>>

\* ---------------------------------------------------- RenamePage: mutate
\* git mv old new; RenamePage has rejected a reserved new name before
Rename_Mv(self) ==
  /\ pc[self] = "mv_cmd"
  /\ repoMu' = "free"
  /\ \E old \in EditPaths : \E new \in {x \in EditPaths \ {old} : ~isReservedPath(FileName[x])} :
       IF idx[old] /= 0 /\ wt[old] /= 0 /\ wt[new] = 0
       THEN /\ wt' = [wt EXCEPT ![new] = wt[old], ![old] = 0]
            /\ idx' = [idx EXCEPT ![new] = idx[old], ![old] = 0]
            /\ arg' = [arg EXCEPT ![self] = new]
            /\ Goto(self, "ci_lock")
            /\ UNCHANGED result
       ELSE TxReturn(self, "error") /\ UNCHANGED <<wt, idx, arg>>
  /\ UNCHANGED <<hasRemote, fnVars, cacheVars, remote, tracking, head, headAt1, nextVer,
                 writeMu, op, startHead, prev, temp, files, docs, outputDir, backupDir,
                 searchPayload, remoteCount, pullCount>>


\* ------------------------------------------------ Repository.CommitChanges
\* git add -- path stages the file
\* git add fails with a pathspec / did-not-match diagnostic
\* git add fails with any other diagnostic
Commit_Add(self) ==
  \/ /\ pc[self] = "ci_add"
     /\ idx' = [idx EXCEPT ![arg[self]] = wt[arg[self]]]
     /\ Goto(self, "ci_commit")
     /\ UNCHANGED <<hasRemote, fnVars, cacheVars, remote, tracking, head, headAt1, wt, nextVer,
                    repoMu, writeMu, op, arg, startHead, result, prev, temp, files, docs,
                    outputDir, backupDir, searchPayload, remoteCount, pullCount>>
  \/ /\ pc[self] = "ci_add"
     /\ Goto(self, "ci_add_update")
     /\ UNCHANGED <<hasRemote, fnVars, cacheVars, remote, tracking, head, headAt1, idx, wt,
                    nextVer, repoMu, writeMu, op, arg, startHead, result, prev, temp, files,
                    docs, outputDir, backupDir, searchPayload, remoteCount, pullCount>>
  \/ /\ pc[self] = "ci_add"
     /\ repoMu' = "free"
     /\ TxReturn(self, "error")
     /\ UNCHANGED <<hasRemote, fnVars, cacheVars, remote, tracking, head, headAt1, idx, wt,
                    nextVer, writeMu, op, arg, startHead, prev, temp, files, docs, outputDir,
                    backupDir, searchPayload, remoteCount, pullCount>>

\* git add --update -- path stages the file only when it is tracked
Commit_AddUpdate(self) ==
  /\ pc[self] = "ci_add_update"
  /\ \E ok \in BOOLEAN :
       IF ok
       THEN /\ idx' = [idx EXCEPT ![arg[self]] = IF @ /= 0 THEN wt[arg[self]] ELSE @]
            /\ Goto(self, "ci_commit")
            /\ UNCHANGED <<repoMu, result>>
       ELSE /\ repoMu' = "free"
            /\ TxReturn(self, "error")
            /\ UNCHANGED idx
  /\ UNCHANGED <<hasRemote, fnVars, cacheVars, remote, tracking, head, headAt1, wt, nextVer,
                 writeMu, op, arg, startHead, prev, temp, files, docs, outputDir, backupDir,
                 searchPayload, remoteCount, pullCount>>

\* a commit step that asks for the stage-all retry whenever nothing is staged
CommitOutcomeAnyNothing(w, ix, h) ==
  IF ix /= TreeOf(h) THEN "committed" ELSE "nothing_added"

\* what git commit answers: a new commit when the index differs from HEAD,
\* "nothing added to commit" when only untracked files are present
CommitOutcome(w, ix, h) ==
  IF ix /= TreeOf(h) THEN "committed"
  ELSE IF (\E x \in Paths : ix[x] = 0 /\ w[x] /= 0) /\ ~(\E x \in Paths : ix[x] /= 0 /\ w[x] /= ix[x]) THEN "nothing_added"
  ELSE "failed"

\* the reflog entry a commit leaves behind as HEAD@{1}
ReflogAfter(h) == IF h = <<>> THEN <<>> ELSE <<h>>

Commit_Commit(self) ==
  /\ pc[self] = "ci_commit"
  /\ IF CommitOutcome(wt, idx, head) = "committed"
     THEN /\ head' = Append(head, {<<x, idx[x]>> : x \in {y \in Paths : idx[y] /= TreeOf(head)[y]}})
          /\ headAt1' = ReflogAfter(head)
          /\ repoMu' = "free"
          /\ Goto(self, "b_start")
          /\ UNCHANGED result
     ELSE IF CommitOutcome(wt, idx, head) = "nothing_added"
     THEN /\ Goto(self, "ci_stage_all")
          /\ UNCHANGED <<head, headAt1, repoMu, result>>
     ELSE /\ repoMu' = "free"
          /\ TxReturn(self, "error")
          /\ UNCHANGED <<head, headAt1>>
  /\ UNCHANGED <<hasRemote, fnVars, cacheVars, remote, tracking, idx, wt, nextVer, writeMu, op,
                 arg, startHead, prev, temp, files, docs, outputDir, backupDir, searchPayload,
                 remoteCount, pullCount>>

\* stageAll: git add --all
\* stageAll fails: "git commit: ..." is returned without a retry
Commit_StageAll(self) ==
  \/ /\ pc[self] = "ci_stage_all"
     /\ idx' = wt
     /\ Goto(self, "ci_commit_retry")
     /\ UNCHANGED <<hasRemote, fnVars, cacheVars, remote, tracking, head, headAt1, wt, nextVer,
                    repoMu, writeMu, op, arg, startHead, result, prev, temp, files, docs,
                    outputDir, backupDir, searchPayload, remoteCount, pullCount>>
  \/ /\ pc[self] = "ci_stage_all"
     /\ repoMu' = "free"
     /\ TxReturn(self, "error")
     /\ UNCHANGED <<hasRemote, fnVars, cacheVars, remote, tracking, head, headAt1, idx, wt,
                    nextVer, writeMu, op, arg, startHead, prev, temp, files, docs, outputDir,
                    backupDir, searchPayload, remoteCount, pullCount>>

\* the single retry of git commit
Commit_Retry(self) ==
  /\ pc[self] = "ci_commit_retry"
  /\ repoMu' = "free"
  /\ IF CommitOutcome(wt, idx, head) = "committed"
     THEN /\ head' = Append(head, {<<x, idx[x]>> : x \in {y \in Paths : idx[y] /= TreeOf(head)[y]}})
          /\ headAt1' = ReflogAfter(head)
          /\ Goto(self, "b_start")
          /\ UNCHANGED result
     ELSE /\ TxReturn(self, "error")
          /\ UNCHANGED <<head, headAt1>>
  /\ UNCHANGED <<hasRemote, fnVars, cacheVars, remote, tracking, idx, wt, nextVer, writeMu, op,
                 arg, startHead, prev, temp, files, docs, outputDir, backupDir, searchPayload,
                 remoteCount, pullCount>>

\* ------------------------------------------------------ Service.BuildStatic
\* the positions of a process inside BuildStatic
BuildPcs == {"b_start", "b_list", "b_render", "b_log", "b_index", "b_assets",
             "b_rotate", "b_activate", "b_restore", "b_cleanup"}

\* a removal that does nothing
RemoveAllSkipped(d) == d

\* os.RemoveAll leaves nothing at the path
RemoveAll(d) == NoDir

\* os.Rename of a directory succeeds when the source exists and nothing
\* (no non-empty directory) is at the destination
RenameOK(src, dst) == src.exists /\ ~dst.exists

\* BuildStatic returns to its caller: SavePage/RenamePage go on to
\* finalizeCommit or return "build static: ...", Service.Pull returns,
\* Server.Start logs a failure and goes on to serve
\* a build whose failure is not looked at: the transaction goes on to publish
BuildDoneIgnoringFailure(self, ok) ==
  /\ Goto(self, IF self \in Editors THEN "fin" ELSE IF self = Starter THEN "done" ELSE "idle")
  /\ UNCHANGED result

BuildDone(self, ok) ==
  IF self \in Editors
  THEN IF ok THEN Goto(self, "fin") /\ UNCHANGED result
             ELSE TxReturn(self, "build_failed")
  ELSE Goto(self, IF self = Starter THEN "done" ELSE "idle") /\ UNCHANGED result

\* a step of BuildStatic returns an error: the deferred cleanup removes tempDir
BuildFail(self) ==
  /\ temp' = [temp EXCEPT ![self] = RemoveAll(@)]
  /\ files' = [files EXCEPT ![self] = {}]
  /\ docs' = [docs EXCEPT ![self] = EmptyTree]
  /\ BuildDone(self, FALSE)

\* a step whose error is ignored: the build carries on
AfterStepIgnoringError(ok, next) == next

\* if err != nil { return err }: where BuildStatic goes after a step
AfterStep(ok, next) == IF ok THEN next ELSE "fail"

\* a step that writes into tempDir: when it succeeds the directory becomes
\* d, when it fails nothing is written and BuildStatic returns the error
BuildStep(self, at, ok, d, next) ==
  /\ pc[self] = at
  /\ IF AfterStep(ok, next) = "fail"
     THEN BuildFail(self)
     ELSE /\ temp' = [temp EXCEPT ![self] = IF ok THEN d ELSE @]
          /\ Goto(self, next)
          /\ UNCHANGED <<files, docs, result>>

\* os.MkdirTemp and buildLayout, then documents.ListTracked: r.mu.Lock()
\* and git ls-files starts
\* os.MkdirTemp and buildLayout fail: BuildStatic returns the error
Build_Start(self) ==
  \/ /\ pc[self] = "b_start"
     /\ CanLockRepo
     /\ repoMu' = self
     /\ temp' = [temp EXCEPT ![self] = ([exists |-> TRUE, src |-> EmptyTree, pages |-> FALSE, index |-> FALSE, assets |-> FALSE])]
     /\ Goto(self, "b_list")
     /\ UNCHANGED <<hasRemote, fnVars, cacheVars, remote, tracking, head, headAt1, idx, wt,
                    nextVer, writeMu, op, arg, startHead, result, prev, files, docs, outputDir,
                    backupDir, searchPayload, remoteCount, pullCount>>
  \/ /\ pc[self] = "b_start"
     /\ BuildFail(self)
     /\ UNCHANGED <<hasRemote, fnVars, cacheVars, remote, tracking, head, headAt1, idx, wt,
                    nextVer, repoMu, writeMu, op, arg, startHead, prev, outputDir, backupDir,
                    searchPayload, remoteCount, pullCount>>

\* git ls-files; a repository with no tracked files fails the build
Build_List(self) ==
  /\ pc[self] = "b_list"
  /\ repoMu' = "free"
  /\ IF {x \in Paths : idx[x] /= 0} = {}
     THEN BuildFail(self)
     ELSE /\ files' = [files EXCEPT ![self] = {x \in Paths : idx[x] /= 0}]
          /\ Goto(self, "b_render")
          /\ UNCHANGED <<temp, docs, result>>
  /\ UNCHANGED <<hasRemote, fnVars, cacheVars, remote, tracking, head, headAt1, idx, wt,
                 nextVer, writeMu, op, arg, startHead, prev, outputDir, backupDir,
                 searchPayload, remoteCount, pullCount>>

\* renderDocuments: a listed file is missing from the working tree
Build_RenderErr(self) ==
  /\ pc[self] = "b_render"
  /\ \E x \in files[self] : wt[x] = 0
  /\ BuildFail(self)
  /\ UNCHANGED <<hasRemote, fnVars, cacheVars, remote, tracking, head, headAt1, idx, wt,
                 nextVer, repoMu, writeMu, op, arg, startHead, prev, outputDir, backupDir,
                 searchPayload, remoteCount, pullCount>>

\* renderDocuments reads every listed file from the working tree, then
\* RenderDocument's repo.Log: r.mu.Lock() and git log starts
Build_Render(self) ==
  /\ pc[self] = "b_render"
  /\ \A x \in files[self] : wt[x] /= 0
  /\ CanLockRepo
  /\ repoMu' = self
  /\ docs' = [docs EXCEPT ![self] = [x \in Paths |-> IF x \in files[self] THEN wt[x] ELSE 0]]
  /\ Goto(self, "b_log")
  /\ UNCHANGED <<hasRemote, fnVars, cacheVars, remote, tracking, head, headAt1, idx, wt,
                 nextVer, writeMu, op, arg, startHead, result, prev, temp, files, outputDir,
                 backupDir, searchPayload, remoteCount, pullCount>>

\* git log finished (its error is ignored by RenderDocument); then asset
\* copy, writeDocuments, directory page, 404 and 403 pages: tempDir holds
\* the pages but neither the search index nor the theme assets
Build_Log(self) ==
  /\ repoMu' = "free"
  /\ \E ok \in BOOLEAN :
       BuildStep(self, "b_log", ok, [temp[self] EXCEPT !.src = docs[self], !.pages = TRUE], "b_index")
  /\ UNCHANGED <<hasRemote, fnVars, cacheVars, remote, tracking, head, headAt1, idx, wt,
                 nextVer, writeMu, op, arg, startHead, prev, outputDir, backupDir,
                 searchPayload, remoteCount, pullCount>>

\* buildSearchIndex, write search-index.json, then s.search.Update
Build_Index(self) ==
  /\ \E ok \in BOOLEAN :
       /\ BuildStep(self, "b_index", ok, [temp[self] EXCEPT !.index = TRUE], "b_assets")
       /\ searchPayload' = IF ok THEN [set |-> TRUE, src |-> docs[self]] ELSE searchPayload
  /\ UNCHANGED <<hasRemote, fnVars, cacheVars, remote, tracking, head, headAt1, idx, wt,
                 nextVer, repoMu, writeMu, op, arg, startHead, prev, outputDir, backupDir,
                 remoteCount, pullCount>>

\* CopyTree of the theme assets and writeHomeAliases complete tempDir; then
\* os.MkdirAll(parent) and os.RemoveAll(backupDir)
Build_Assets(self) ==
  /\ \E ok \in BOOLEAN :
       /\ BuildStep(self, "b_assets", ok, [temp[self] EXCEPT !.assets = TRUE], "b_rotate")
       /\ backupDir' = IF ok THEN RemoveAll(backupDir) ELSE backupDir
  /\ UNCHANGED <<hasRemote, fnVars, cacheVars, remote, tracking, head, headAt1, idx, wt,
                 nextVer, repoMu, writeMu, op, arg, startHead, prev, outputDir, searchPayload,
                 remoteCount, pullCount>>

\* os.Rename(finalDir, backupDir); a missing finalDir is not an error
Build_Rotate(self) ==
  /\ pc[self] = "b_rotate"
  /\ IF ~outputDir.exists
     THEN /\ Goto(self, "b_activate")
          /\ UNCHANGED <<outputDir, backupDir, temp, files, docs, result>>
     ELSE IF RenameOK(outputDir, backupDir)
     THEN /\ backupDir' = outputDir
          /\ outputDir' = NoDir
          /\ Goto(self, "b_activate")
          /\ UNCHANGED <<temp, files, docs, result>>
     ELSE BuildFail(self) /\ UNCHANGED <<outputDir, backupDir>>
  /\ UNCHANGED <<hasRemote, fnVars, cacheVars, remote, tracking, head, headAt1, idx, wt,
                 nextVer, repoMu, writeMu, op, arg, startHead, prev, searchPayload,
                 remoteCount, pullCount>>

\* os.Rename(tempDir, finalDir) succeeded
\* os.Rename(tempDir, finalDir) failed: the destination is occupied, or
\* the file system refused the rename
Build_Activate(self) ==
  \/ /\ pc[self] = "b_activate"
     /\ RenameOK(temp[self], outputDir)
     /\ outputDir' = temp[self]
     /\ temp' = [temp EXCEPT ![self] = NoDir]
     /\ Goto(self, "b_cleanup")
     /\ UNCHANGED <<hasRemote, fnVars, cacheVars, remote, tracking, head, headAt1, idx, wt,
                    nextVer, repoMu, writeMu, op, arg, startHead, result, prev, files, docs,
                    backupDir, searchPayload, remoteCount, pullCount>>
  \/ /\ pc[self] = "b_activate"
     /\ Goto(self, "b_restore")
     /\ UNCHANGED <<hasRemote, fnVars, cacheVars, remote, tracking, head, headAt1, idx, wt,
                    nextVer, repoMu, writeMu, op, arg, startHead, result, prev, temp, files,
                    docs, outputDir, backupDir, searchPayload, remoteCount, pullCount>>

\* _ = os.Rename(backupDir, finalDir), then return the activation error
Build_Restore(self) ==
  /\ pc[self] = "b_restore"
  /\ IF RenameOK(backupDir, outputDir)
     THEN outputDir' = backupDir /\ backupDir' = NoDir
     ELSE UNCHANGED <<outputDir, backupDir>>
  /\ BuildFail(self)
  /\ UNCHANGED <<hasRemote, fnVars, cacheVars, remote, tracking, head, headAt1, idx, wt,
                 nextVer, repoMu, writeMu, op, arg, startHead, prev, searchPayload,
                 remoteCount, pullCount>>

\* _ = os.RemoveAll(backupDir); cleanTemp = false; return nil
Build_Cleanup(self) ==
  /\ pc[self] = "b_cleanup"
  /\ backupDir' = RemoveAll(backupDir)
  /\ files' = [files EXCEPT ![self] = {}]
  /\ docs' = [docs EXCEPT ![self] = EmptyTree]
  /\ BuildDone(self, TRUE)
  /\ UNCHANGED <<hasRemote, fnVars, cacheVars, remote, tracking, head, headAt1, idx, wt,
                 nextVer, repoMu, writeMu, op, arg, startHead, prev, temp, outputDir,
                 searchPayload, remoteCount, pullCount>>


\* ------------------------------------------------- Service.finalizeCommit
\* no remote configured: the local commit is the result
Fin_NoRemote(self) ==
  /\ pc[self] = "fin"
  /\ ~hasRemote
  /\ TxReturn(self, "ok")
  /\ UNCHANGED <<hasRemote, fnVars, cacheVars, remote, tracking, head, headAt1, idx, wt,
                 nextVer, repoMu, writeMu, op, arg, startHead, prev, temp, files, docs,
                 outputDir, backupDir, searchPayload, remoteCount, pullCount>>

Fin_RevList(self) ==
  /\ pc[self] = "fin_revlist"
  /\ repoMu' = "free"
  /\ Goto(self, (IF (RemoteAheadLocked(tracking, head)) THEN "rb_lock" ELSE "push_lock"))
  /\ UNCHANGED <<hasRemote, fnVars, cacheVars, remote, tracking, head, headAt1, idx, wt,
                 nextVer, writeMu, op, arg, startHead, result, prev, temp, files, docs,
                 outputDir, backupDir, searchPayload, remoteCount, pullCount>>

\* ------------------------------------------------------- Repository.Push
\* git push: accepted, or rejected as non-fast-forward (ErrRemoteAhead)
\* git push fails for another reason: the error is returned as it is
Push_Cmd(self) ==
  \/ /\ pc[self] = "push_cmd"
     /\ repoMu' = "free"
     /\ IF (IsPrefix(remote, head))
        THEN /\ remote' = head
             /\ tracking' = head
             /\ TxReturn(self, "ok")
        ELSE /\ Goto(self, "rb_lock")
             /\ UNCHANGED <<remote, tracking, result>>
     /\ UNCHANGED <<hasRemote, fnVars, cacheVars, head, headAt1, idx, wt, nextVer, writeMu, op,
                    arg, startHead, prev, temp, files, docs, outputDir, backupDir,
                    searchPayload, remoteCount, pullCount>>
  \/ /\ pc[self] = "push_cmd"
     /\ repoMu' = "free"
     /\ TxReturn(self, "push_failed")
     /\ UNCHANGED <<hasRemote, fnVars, cacheVars, remote, tracking, head, headAt1, idx, wt,
                    nextVer, writeMu, op, arg, startHead, prev, temp, files, docs, outputDir,
                    backupDir, searchPayload, remoteCount, pullCount>>

\* ------------------------------- rollbackWithConflict, Repository.ResetSoft
\* git reset --soft HEAD@{1}: HEAD moves, index and work tree stay
\* git reset fails: ErrRepositoryBehind joined with "rollback failed"
Rollback_Reset(self) ==
  \/ /\ pc[self] = "rb_reset"
     /\ headAt1 /= <<>>
     /\ repoMu' = "free"
     /\ head' = headAt1[1]
     /\ headAt1' = <<head>>
     /\ TxReturn(self, "behind")
     /\ UNCHANGED <<hasRemote, fnVars, cacheVars, remote, tracking, idx, wt, nextVer, writeMu,
                    op, arg, startHead, prev, temp, files, docs, outputDir, backupDir,
                    searchPayload, remoteCount, pullCount>>
  \/ /\ pc[self] = "rb_reset"
     /\ repoMu' = "free"
     /\ TxReturn(self, "behind_rollback_failed")
     /\ UNCHANGED <<hasRemote, fnVars, cacheVars, remote, tracking, head, headAt1, idx, wt,
                    nextVer, writeMu, op, arg, startHead, prev, temp, files, docs, outputDir,
                    backupDir, searchPayload, remoteCount, pullCount>>

\* ------------------------------------- Service.Pull and Repository.Pull
\* Repository.Pull with no remote returns (false, nil) at once; limit bounds
\* the number of calls, and a limit of 0 lets the ticker go on for ever
Pull_BeginUpTo(self, limit) ==
  /\ pc[self] = "idle"
  /\ limit = 0 \/ pullCount < limit
  /\ pullCount' = IF limit = 0 THEN pullCount ELSE pullCount + 1
  /\ IF hasRemote THEN Goto(self, "pl_lock") ELSE UNCHANGED pc
  /\ UNCHANGED <<hasRemote, fnVars, cacheVars, remote, tracking, head, headAt1, idx, wt,
                 nextVer, repoMu, writeMu, op, arg, startHead, result, prev, temp, files, docs,
                 outputDir, backupDir, searchPayload, remoteCount>>

\* prev := headHash
Pull_HeadHash(self) ==
  /\ pc[self] = "pl_revparse"
  /\ prev' = [prev EXCEPT ![self] = head]
  /\ Goto(self, "pl_ff")
  /\ UNCHANGED <<hasRemote, fnVars, cacheVars, remote, tracking, head, headAt1, idx, wt,
                 nextVer, repoMu, writeMu, op, arg, startHead, result, temp, files, docs,
                 outputDir, backupDir, searchPayload, remoteCount, pullCount>>

\* git pull --ff-only answers "ok" when there is nothing new or the local
\* branch can be fast-forwarded, "diverged" when it cannot
FastForward(h, rem) ==
  IF IsPrefix(rem, h) THEN "up_to_date"
  ELSE IF IsPrefix(h, rem) THEN "fast_forward"
  ELSE "diverged"

\* git pull --ff-only fails for another reason: Pull returns the error.
\* One such reason is a fast-forward that would overwrite a local change:
\* a path the new commits change is staged or modified in the work tree
\* ("Your local changes to the following files would be overwritten by
\* merge", which needsRebaseFallback does not look for)
Pull_FF(self) ==
  \/ /\ pc[self] = "pl_ff"
     /\ FastForward(head, remote) = "fast_forward" =>
           \A x \in Paths : TreeOf(head)[x] /= TreeOf(remote)[x] =>
                                (idx[x] = TreeOf(head)[x] /\ wt[x] = idx[x])
     /\ tracking' = remote
     /\ IF FastForward(head, remote) = "fast_forward"
        THEN /\ head' = remote
             /\ headAt1' = ReflogAfter(head)
             /\ idx' = CheckoutTo(idx, head, remote)
             /\ wt' = CheckoutTo(wt, head, remote)
             /\ Goto(self, "pl_after")
        ELSE /\ Goto(self, IF ((FastForward(head, remote)) = "diverged") THEN "pl_rebase" ELSE "pl_after")
             /\ UNCHANGED <<head, headAt1, idx, wt>>
     /\ UNCHANGED <<hasRemote, fnVars, cacheVars, remote, nextVer, repoMu, writeMu, op, arg,
                    startHead, result, prev, temp, files, docs, outputDir, backupDir,
                    searchPayload, remoteCount, pullCount>>
  \/ /\ pc[self] = "pl_ff"
     /\ repoMu' = "free"
     /\ prev' = [prev EXCEPT ![self] = <<>>]
     /\ Goto(self, "idle")
     /\ UNCHANGED <<hasRemote, fnVars, cacheVars, remote, tracking, head, headAt1, idx, wt,
                    nextVer, writeMu, op, arg, startHead, result, temp, files, docs, outputDir,
                    backupDir, searchPayload, remoteCount, pullCount>>

\* the branch after git pull --rebase: the local-only commits replayed on
\* top of the remote branch
Rebased(h, rem) == rem \o (SubSeq(h, CommonLen(h, rem) + 1, Len(h)))

\* pullWithRebase: git refuses to rebase over staged or unstaged changes of
\* tracked files; otherwise HEAD and HEAD@{1} both end at the rebased commit
Pull_Rebase(self) ==
  /\ pc[self] = "pl_rebase"
  /\ IF (\E x \in Paths : idx[x] /= TreeOf(head)[x] \/ (idx[x] /= 0 /\ wt[x] /= idx[x]))
     THEN /\ repoMu' = "free"
          /\ prev' = [prev EXCEPT ![self] = <<>>]
          /\ Goto(self, "idle")
          /\ UNCHANGED <<head, headAt1, idx, wt>>
     ELSE /\ head' = Rebased(head, remote)
          /\ headAt1' = <<Rebased(head, remote)>>
          /\ idx' = CheckoutTo(idx, head, Rebased(head, remote))
          /\ wt' = CheckoutTo(wt, head, Rebased(head, remote))
          /\ Goto(self, "pl_after")
          /\ UNCHANGED <<repoMu, prev>>
  /\ UNCHANGED <<hasRemote, fnVars, cacheVars, remote, tracking, nextVer, writeMu, op, arg,
                 startHead, result, temp, files, docs, outputDir, backupDir, searchPayload,
                 remoteCount, pullCount>>

\* a pull that always reports a change
PullChangedAlways(after, before) == TRUE

\* Repository.Pull reports whether HEAD moved
PullChanged(after, before) == after /= before

\* after := headHash; Service.Pull rebuilds only when the pull changed HEAD
Pull_After(self) ==
  /\ pc[self] = "pl_after"
  /\ repoMu' = "free"
  /\ prev' = [prev EXCEPT ![self] = <<>>]
  /\ Goto(self, IF PullChanged(head, prev[self]) THEN "b_start" ELSE "idle")
  /\ UNCHANGED <<hasRemote, fnVars, cacheVars, remote, tracking, head, headAt1, idx, wt,
                 nextVer, writeMu, op, arg, startHead, result, temp, files, docs, outputDir,
                 backupDir, searchPayload, remoteCount, pullCount>>

\* --------------------------------------------------------- the remote side
\* another clone pushes a commit to the remote branch
Remote_Advance ==
  /\ hasRemote
  /\ remoteCount < MaxRemote
  /\ remoteCount' = remoteCount + 1
  /\ remote' = Append(remote, {<<RemotePath, nextVer>>})
  /\ nextVer' = nextVer + 1
  /\ UNCHANGED <<hasRemote, fnVars, cacheVars, tracking, head, headAt1, idx, wt, repoMu,
                 writeMu, pc, op, arg, startHead, result, prev, temp, files, docs, outputDir,
                 backupDir, searchPayload, pullCount>>

\* ------------------------------------------------------------ specification
Next ==
  \/ \E e \in Editors :
        \/ SavePage_Begin(e) \/ RenamePage_Begin(e) \/ Tx_Lock(e) \/ Tx_Unlock(e)
        \/ Fresh_NoRemote(e) \/ Fresh_RevList(e)
        \/ Repo_Lock(e) \/ RemoteAhead_Fetch(e)
        \/ Tx_Reject(e) \/ SavePage_Reserved(e) \/ SavePage_Write(e)
        \/ Rename_Mv(e)
        \/ Commit_Add(e)
        \/ Commit_AddUpdate(e) \/ Commit_Commit(e) \/ Commit_StageAll(e)
        \/ Commit_Retry(e)
        \/ Fin_NoRemote(e) \/ Fin_RevList(e)
        \/ Push_Cmd(e)
        \/ Rollback_Reset(e)
  \/ \E t \in Pullers :
        \/ Pull_BeginUpTo(t, MaxPulls) \/ Repo_Lock(t) \/ Pull_HeadHash(t) \/ Pull_FF(t)
        \/ Pull_Rebase(t) \/ Pull_After(t)
  \/ \E p \in Procs :
        \/ Build_Start(p) \/ Build_List(p) \/ Build_RenderErr(p)
        \/ Build_Render(p) \/ Build_Log(p) \/ Build_Index(p)
        \/ Build_Assets(p) \/ Build_Rotate(p) \/ Build_Activate(p)
        \/ Build_Restore(p) \/ Build_Cleanup(p)
  \/ Remote_Advance

Spec == Init /\ [][Next]_vars

\* ---------------------------------------------- requests that return
\* either one request arrives while the server starts and the ticker
\* pulls, or two requests arrive together after the start, between two
\* ticks
InitLive ==
  /\ hasRemote \in BOOLEAN
  /\ head \in (IF hasRemote THEN {<<BaseCommit>>} ELSE {<<>>, <<BaseCommit>>})
  /\ remote = (IF hasRemote THEN <<BaseCommit>> ELSE <<>>)
  /\ tracking = remote
  /\ headAt1 = <<>>
  /\ idx = TreeOf(head)
  /\ wt = TreeOf(head)
  /\ nextVer = 2
  /\ repoMu = "free"
  /\ writeMu = "free"
  /\ \/ /\ pc \in {[p \in Procs |-> IF p = Starter THEN "b_start" ELSE IF p = e THEN "done" ELSE "idle"] :
                     e \in Editors}
        /\ pullCount = 0
        /\ outputDir \in {NoDir, FullSnapshot(TreeOf(<<BaseCommit>>))}
     \/ /\ pc = [p \in Procs |-> IF p = Starter THEN "done" ELSE "idle"]
        /\ pullCount = MaxPulls
        /\ outputDir = FullSnapshot(TreeOf(<<BaseCommit>>))
  /\ op = [e \in Editors |-> "none"]
  /\ arg = [e \in Editors |-> "-"]
  /\ prev = [p \in Pullers |-> <<>>]
  /\ startHead = [e \in Editors |-> <<>>]
  /\ result = [e \in Editors |-> "none"]
  /\ temp = [p \in Procs |-> NoDir]
  /\ files = [p \in Procs |-> {}]
  /\ docs = [p \in Procs |-> EmptyTree]
  /\ backupDir = NoDir
  /\ searchPayload = ([set |-> FALSE, src |-> EmptyTree])
  /\ remoteCount = 0
  /\ FnIdle
  /\ CacheIdle

\* the goroutines go on running and a git command that has been started
\* ends: while a step is possible, a step is taken
SpecLive == InitLive /\ [][Next]_vars /\ WF_vars(Next)

\* ------------------------------------------- pulls in a row, no requests
\* the server is up (its startup build has published the snapshot of HEAD,
\* or has failed after the index step), no edit request arrives; the local
\* branch is level with the remote or one commit ahead
InitPull ==
  /\ hasRemote = TRUE
  /\ head \in {<<BaseCommit>>, <<BaseCommit, {<<"q", 2>>}>>}
  /\ remote = <<BaseCommit>>
  /\ tracking = remote
  /\ headAt1 = ReflogAfter(SubSeq(head, 1, Len(head) - 1))
  /\ idx = TreeOf(head)
  /\ wt = TreeOf(head)
  /\ nextVer = 3
  /\ repoMu = "free"
  /\ writeMu = "free"
  /\ pc = [p \in Procs |-> IF p \in Pullers THEN "idle" ELSE "done"]
  /\ op = [e \in Editors |-> "none"]
  /\ arg = [e \in Editors |-> "-"]
  /\ prev = [p \in Pullers |-> <<>>]
  /\ startHead = [e \in Editors |-> <<>>]
  /\ result = [e \in Editors |-> "none"]
  /\ temp = [p \in Procs |-> NoDir]
  /\ files = [p \in Procs |-> {}]
  /\ docs = [p \in Procs |-> EmptyTree]
  /\ outputDir \in {NoDir, FullSnapshot(TreeOf(head))}
  /\ backupDir = NoDir
  /\ searchPayload = [set |-> TRUE, src |-> TreeOf(head)]
  /\ remoteCount = 0
  /\ pullCount = 0
  /\ FnIdle
  /\ CacheIdle

NextPull ==
  \/ \E t \in Pullers :
        \/ Pull_BeginUpTo(t, MaxPullsInARow) \/ Repo_Lock(t) \/ Pull_HeadHash(t) \/ Pull_FF(t)
        \/ Pull_Rebase(t) \/ Pull_After(t)
        \/ Build_Start(t) \/ Build_List(t) \/ Build_Render(t)
        \/ Build_Log(t) \/ Build_Index(t) \/ Build_Assets(t) \/ Build_Rotate(t)
        \/ Build_Activate(t) \/ Build_Restore(t) \/ Build_Cleanup(t)
  \/ Remote_Advance

SpecPull == InitPull /\ [][NextPull]_vars


\* ------------------------------------------- pulls after a rollback
\* SavePage(x) has been rolled back: another clone had pushed a commit that
\* changes page y. HEAD is the base commit again, the edit of x is still
\* in the index and the work tree and in the snapshot built before the
\* rollback, and the fetch of finalizeCommit has seen the remote commit
InitBehind ==
  /\ hasRemote = TRUE
  /\ head = <<BaseCommit>>
  /\ \E x \in EditPaths, y \in Paths :
        /\ headAt1 = <<<<BaseCommit, {<<x, 2>>}>>>>
        /\ idx = [TreeOf(head) EXCEPT ![x] = 2]
        /\ remote = <<BaseCommit, {<<y, 3>>}>>
  /\ wt = idx
  /\ tracking = remote
  /\ nextVer = 4
  /\ repoMu = "free"
  /\ writeMu = "free"
  /\ pc = [p \in Procs |-> IF p \in Pullers THEN "idle" ELSE "done"]
  /\ op = [e \in Editors |-> "none"]
  /\ arg = [e \in Editors |-> "-"]
  /\ prev = [p \in Pullers |-> <<>>]
  /\ startHead = [e \in Editors |-> <<>>]
  /\ result = [e \in Editors |-> "none"]
  /\ temp = [p \in Procs |-> NoDir]
  /\ files = [p \in Procs |-> {}]
  /\ docs = [p \in Procs |-> EmptyTree]
  /\ outputDir = FullSnapshot(wt)
  /\ backupDir = NoDir
  /\ searchPayload = [set |-> TRUE, src |-> wt]
  /\ remoteCount = 1
  /\ pullCount = 0
  /\ FnIdle
  /\ CacheIdle

\* the pull ticker goes on calling Service.Pull, which rebuilds when HEAD
\* has moved
NextBehind ==
  \E t \in Pullers :
     \/ Pull_BeginUpTo(t, 0) \/ Repo_Lock(t) \/ Pull_HeadHash(t) \/ Pull_FF(t) \/ Pull_After(t)
     \/ Build_Start(t) \/ Build_List(t) \/ Build_Render(t)
     \/ Build_Log(t) \/ Build_Index(t) \/ Build_Assets(t) \/ Build_Rotate(t)
     \/ Build_Activate(t) \/ Build_Restore(t) \/ Build_Cleanup(t)

\* the ticker never stops; a git pull that can succeed infinitely often
\* does succeed at some time, and so does a step of a build
SpecBehind ==
  /\ InitBehind
  /\ [][NextBehind]_vars
  /\ WF_vars(NextBehind)
  /\ \A t \in Pullers :
        /\ SF_vars(Pull_FF(t) /\ pc'[t] = "pl_after")
        /\ SF_vars(NextBehind /\ pc[t] \in BuildPcs /\ (pc'[t] \in BuildPcs \/ pc[t] = "b_cleanup"))

\* --------------------------------------------------------------- path.Clean
\* strings.Split(s, sep) for a separator of one character
RECURSIVE Split(_, _)
Split(s, c) ==
  IF \A i \in 1..Len(s) : s[i] /= c THEN <<s>>
  ELSE LET i == CHOOSE k \in 1..Len(s) : s[k] = c /\ \A j \in 1..(k - 1) : s[j] /= c
       IN  <<SubSeq(s, 1, i - 1)>> \o Split(SubSeq(s, i + 1, Len(s)), c)

\* strings.Join(segs, sep)
RECURSIVE Join(_, _)
Join(segs, c) ==
  IF segs = <<>> THEN <<>>
  ELSE IF Len(segs) = 1 THEN segs[1]
  ELSE segs[1] \o <<c>> \o Join(Tail(segs), c)

\* the elements path.Clean keeps: empty and "." elements are dropped, ".."
\* removes the element before it, is dropped at the root of a rooted path
\* and kept at the start of a relative one
RECURSIVE CleanElements(_, _, _)
CleanElements(segs, kept, rooted) ==
  IF segs = <<>> THEN kept
  ELSE LET seg == segs[1]
           rest == Tail(segs)
       IN  IF seg = <<>> \/ seg = <<".">> THEN CleanElements(rest, kept, rooted)
           ELSE IF seg = <<".", ".">>
                THEN IF kept /= <<>> /\ kept[Len(kept)] /= <<".", ".">>
                     THEN CleanElements(rest, SubSeq(kept, 1, Len(kept) - 1), rooted)
                     ELSE IF rooted THEN CleanElements(rest, kept, rooted)
                     ELSE CleanElements(rest, Append(kept, seg), rooted)
           ELSE CleanElements(rest, Append(kept, seg), rooted)

\* path.Clean
Clean(pth) ==
  IF pth = <<>> THEN <<".">>
  ELSE LET rooted == pth[1] = "/"
           out == (IF rooted THEN <<"/">> ELSE <<>>) \o
                  Join(CleanElements(Split(pth, "/"), <<>>, rooted), "/")
       IN  IF out = <<>> THEN <<".">> ELSE out

\* for strings.HasPrefix(cleaned, "./") { cleaned = strings.TrimPrefix(cleaned, "./") }
RECURSIVE TrimDotSlash(_)
TrimDotSlash(s) == IF HasPrefix(s, <<".", "/">>) THEN TrimDotSlash(TrimPrefix(s, <<".", "/">>)) ELSE s

\* ------------------------------------------------------- normalizeRelPath
\* candidate += ".md" unless it ends in .md in any letter case
WithMdSuffix(s) == IF HasSuffix(ToLower(s), Str_md) THEN s ELSE s \o Str_md

ensureHomeDoc(homeDoc) ==
  LET trimmed == ReplaceAll(TrimSpace(homeDoc), "\\", "/")
      named == WithMdSuffix(IF trimmed = <<>> THEN <<"H", "o", "m", "e", ".", "m", "d">> ELSE trimmed)
      cleaned == TrimPrefix(TrimDotSlash(Clean(named)), <<"/">>)
  IN  ToSlash(IF cleaned = <<>> THEN <<"H", "o", "m", "e", ".", "m", "d">> ELSE cleaned)

Rejected(why) == [ok |-> FALSE, path |-> <<>>, err |-> "invalid path", why |-> why]

\* a segment check that lets a leading '-' through
SegmentErrorNoDash(seg) ==
  IF seg = <<>> \/ seg = <<".">> \/ seg = <<".", ".">> THEN "invalid path segment"
  ELSE IF Contains(seg, <<"NUL">>) THEN "invalid path segment"
  ELSE ""

\* the checks of the loop over the segments; "" when the segment passes
SegmentError(seg) ==
  IF seg = <<>> \/ seg = <<".">> \/ seg = <<".", ".">> THEN "invalid path segment"
  ELSE IF HasPrefix(seg, <<"-">>) THEN "path segment cannot start with '-'"
  ELSE IF Contains(seg, <<"NUL">>) THEN "invalid path segment"
  ELSE ""

normalizeRelPath(input, homeDoc) ==
  LET home == ensureHomeDoc(homeDoc)
      slashed == ReplaceAll(TrimSpace(input), "\\", "/")
      trimmed == TrimRight(TrimLeft(slashed, "/"), "/")
      candidate == IF trimmed = <<>> THEN home ELSE trimmed
      stripped == TrimPrefix(TrimDotSlash(Clean(WithMdSuffix(candidate))), <<"/">>)
      cleaned == IF stripped = <<>> THEN home ELSE stripped
      segments == Split(cleaned, "/")
  IN  IF Contains(candidate, <<"NUL">>) THEN Rejected("contains null byte")
      ELSE IF HasPrefix(cleaned, <<".", ".">>) \/ Contains(cleaned, <<"/", ".", ".", "/">>)
           THEN Rejected("path escapes repository root")
      ELSE IF \E i \in 1..Len(segments) : SegmentError(segments[i]) /= ""
           THEN Rejected(SegmentError(segments[CHOOSE i \in 1..Len(segments) :
                            /\ SegmentError(segments[i]) /= ""
                            /\ \A j \in 1..(i - 1) : SegmentError(segments[j]) = ""]))
      ELSE [ok |-> TRUE, path |-> ToSlash(cleaned), err |-> "", why |-> ""]

\* ----------------------------------------- calls of normalizeRelPath
\* the characters of the request paths: a letter, the separators, dot,
\* dash, blank, the letters of the suffix in both cases, the null byte
InitPath ==
  /\ ServiceIdle
  /\ CacheIdle
  /\ fnIn \in UNION {[1..n -> {"a", "/", "\\", ".", "-", " ", "m", "d", "D", "NUL"}] : n \in 0..MaxPathLen}
  /\ fnOut = <<>>
  /\ fnStep = "normalize"

\* a handler normalizes the path of the request
Path_Normalize ==
  /\ fnStep = "normalize"
  /\ fnOut' = <<normalizeRelPath(fnIn, <<>>)>>
  /\ fnStep' = IF normalizeRelPath(fnIn, <<>>).ok THEN "renormalize" ELSE "done"
  /\ UNCHANGED <<serviceVars, cacheVars, fnIn>>

\* the accepted path is given to normalizeRelPath again (SavePage after
\* handleDocument, History with the path a listing returned)
Path_Renormalize ==
  /\ fnStep = "renormalize"
  /\ fnOut' = Append(fnOut, normalizeRelPath(fnOut[1].path, <<>>))
  /\ fnStep' = "done"
  /\ UNCHANGED <<serviceVars, cacheVars, fnIn>>

NextPath == Path_Normalize \/ Path_Renormalize

SpecPath == InitPath /\ [][NextPath]_vars

\* ------------------------------------------------- command deadlines
\* a context.Context as far as deadlines go: the nil interface value
\* (nil = TRUE), a context without deadline such as context.Background(),
\* or one whose deadline is the instant "at"
Background == [nil |-> FALSE, has |-> FALSE, at |-> 0]

WithDeadline(at) == [nil |-> FALSE, has |-> TRUE, at |-> at]

\* NewRepository: a timeout of zero or less becomes 120 seconds
CommandTimeout(configured) == IF configured <= 0 THEN 120 ELSE configured

\* Repository.ensureContext at the instant now
ensureContext(ctx, now, timeout) == IF ~ctx.nil THEN ctx ELSE WithDeadline(now + timeout)

\* Repository.command: the context exec.CommandContext runs git under
command(ctx) == IF ctx.nil THEN Background ELSE ctx

\* an operation of Repository is called at the instant start with a nil
\* context, one without deadline, or one with a deadline before or after
\* the default timeout
InitCtx ==
  /\ ServiceIdle
  /\ CacheIdle
  /\ fnIn \in {[start |-> s, ctx |-> c, configured |-> t] :
                  s \in 0..MaxClock,
                  c \in {[nil |-> TRUE, has |-> FALSE, at |-> 0], Background}
                          \cup {WithDeadline(n) : n \in 1..(MaxClock + CommandTimeout(0) + MaxDeadline)},
                  t \in 0..MaxTimeout}
  /\ fnIn.ctx.has =>
        \E d \in 1..MaxDeadline : fnIn.ctx.at \in {fnIn.start + d, fnIn.start + CommandTimeout(0) + d}
  /\ fnOut = <<>>
  /\ fnStep = "ensure"

\* an operation of Repository begins: ctx, cancel := r.ensureContext(ctx)
Ctx_Ensure ==
  /\ fnStep = "ensure"
  /\ fnOut' = <<ensureContext(fnIn.ctx, fnIn.start, CommandTimeout(fnIn.configured))>>
  /\ fnStep' = "command"
  /\ UNCHANGED <<serviceVars, cacheVars, fnIn>>

\* the operation runs git, which answers soon or hangs beyond the timeout;
\* exec.CommandContext kills the process at the deadline of its context
Ctx_Command ==
  /\ fnStep = "command"
  /\ \E need \in {1, CommandTimeout(fnIn.configured) + 1} :
        LET ctx == command(fnOut[1])
        IN  fnOut' = Append(fnOut, [need |-> need,
                                    end |-> IF ctx.has /\ ctx.at < fnIn.start + need
                                            THEN ctx.at ELSE fnIn.start + need])
  /\ fnStep' = "done"
  /\ UNCHANGED <<serviceVars, cacheVars, fnIn>>

NextCtx == Ctx_Ensure \/ Ctx_Command

SpecCtx == InitCtx /\ [][NextCtx]_vars

\* ------------------------------------------ LayoutCache, SearchCatalog
\* sync.RWMutex: Lock waits for the writer and all readers, RLock for the writer
CanLock(mu) == mu.writer = "none" /\ mu.readers = {}

\* an RLock that does not wait for the writer
CanRLockAlways(mu) == TRUE

CanRLock(mu) == mu.writer = "none"

\* the n-th build of an updater has an id of its own; its layout fragments
\* all carry the id, its index payload is one or two bytes of the id
UpdateId(self, round) == (IF self = "u1" THEN 1 ELSE 2) + 2 * (round - 1)

PayloadOf(id) == [i \in 1..(((id - 1) % 2) + 1) |-> id]

\* the fields of LayoutSnapshot in the order of the struct
LayoutFields == <<"Header", "Footer", "ServerFooter", "Sidebar">>

\* a build has rendered its layout fragments and its index and calls
\* LayoutCache.Update: c.mu.Lock()
LU_Lock(self) ==
  /\ cpc[self] = "none"
  /\ clocal[self].rounds < MaxUpdates
  /\ CanLock(layoutMu)
  /\ layoutMu' = [layoutMu EXCEPT !.writer = self]
  /\ \E data \in {<<>>, PayloadOf(UpdateId(self, clocal[self].rounds + 1))} :
        clocal' = [clocal EXCEPT ![self].id = UpdateId(self, clocal[self].rounds + 1),
                                 ![self].data = data, ![self].n = 1]
  /\ cpc' = [cpc EXCEPT ![self] = "lu_store"]
  /\ UNCHANGED <<serviceVars, fnVars, layoutSnap, catalogMu, catalogPayload, heap>>

\* c.snapshot = LayoutSnapshot{...}, one field at a time
LU_Store(self) ==
  /\ cpc[self] = "lu_store"
  /\ layoutSnap' = [layoutSnap EXCEPT ![LayoutFields[clocal[self].n]] = clocal[self].id]
  /\ clocal' = [clocal EXCEPT ![self].n = @ + 1]
  /\ cpc' = [cpc EXCEPT ![self] = IF clocal[self].n = Len(LayoutFields) THEN "lu_unlock" ELSE "lu_store"]
  /\ UNCHANGED <<serviceVars, fnVars, layoutMu, catalogMu, catalogPayload, heap>>

\* c.mu.Unlock(); the build goes on to the search index
LU_Unlock(self) ==
  /\ cpc[self] = "lu_unlock"
  /\ layoutMu' = [layoutMu EXCEPT !.writer = "none"]
  /\ cpc' = [cpc EXCEPT ![self] = "cu_lock"]
  /\ UNCHANGED <<serviceVars, fnVars, layoutSnap, catalogMu, catalogPayload, heap, clocal>>

\* SearchCatalog.Update: c.mu.Lock(); if len(payload) == 0
CU_Lock(self) ==
  /\ cpc[self] = "cu_lock"
  /\ CanLock(catalogMu)
  /\ catalogMu' = [catalogMu EXCEPT !.writer = self]
  /\ clocal' = [clocal EXCEPT ![self].arr = 0, ![self].n = 0]
  /\ cpc' = [cpc EXCEPT ![self] = IF clocal[self].data = <<>> THEN "cu_ptr" ELSE "cu_alloc"]
  /\ UNCHANGED <<serviceVars, fnVars, layoutMu, layoutSnap, catalogPayload, heap>>

\* append(json.RawMessage(nil), payload...): a new array
CU_Alloc(self) ==
  /\ cpc[self] = "cu_alloc"
  /\ heap' = Append(heap, [i \in 1..Len(clocal[self].data) |-> 0])
  /\ clocal' = [clocal EXCEPT ![self].arr = Len(heap) + 1, ![self].n = 0]
  /\ cpc' = [cpc EXCEPT ![self] = "cu_copy"]
  /\ UNCHANGED <<serviceVars, fnVars, layoutMu, layoutSnap, catalogMu, catalogPayload>>

\* ... filled with the bytes of payload, one at a time
CU_Copy(self) ==
  /\ cpc[self] = "cu_copy"
  /\ heap' = [heap EXCEPT ![clocal[self].arr][clocal[self].n + 1] = clocal[self].data[clocal[self].n + 1]]
  /\ clocal' = [clocal EXCEPT ![self].n = @ + 1]
  /\ cpc' = [cpc EXCEPT ![self] = IF clocal[self].n + 1 = Len(clocal[self].data) THEN "cu_ptr" ELSE "cu_copy"]
  /\ UNCHANGED <<serviceVars, fnVars, layoutMu, layoutSnap, catalogMu, catalogPayload>>

\* c.payload = ...: the pointer of the slice header, then its length
CU_StorePtr(self) ==
  /\ cpc[self] = "cu_ptr"
  /\ catalogPayload' = [catalogPayload EXCEPT !.ptr = clocal[self].arr]
  /\ cpc' = [cpc EXCEPT ![self] = "cu_len"]
  /\ UNCHANGED <<serviceVars, fnVars, layoutMu, layoutSnap, catalogMu, heap, clocal>>

CU_StoreLen(self) ==
  /\ cpc[self] = "cu_len"
  /\ catalogPayload' = [catalogPayload EXCEPT !.len = Len(clocal[self].data)]
  /\ cpc' = [cpc EXCEPT ![self] = "cu_unlock"]
  /\ UNCHANGED <<serviceVars, fnVars, layoutMu, layoutSnap, catalogMu, heap, clocal>>

\* c.mu.Unlock()
CU_Unlock(self) ==
  /\ cpc[self] = "cu_unlock"
  /\ catalogMu' = [catalogMu EXCEPT !.writer = "none"]
  /\ clocal' = [clocal EXCEPT ![self].rounds = @ + 1]
  /\ cpc' = [cpc EXCEPT ![self] = "none"]
  /\ UNCHANGED <<serviceVars, fnVars, layoutMu, layoutSnap, catalogPayload, heap>>

\* a request renders a page: LayoutCache.Snapshot, c.mu.RLock()
LS_RLock(self) ==
  /\ cpc[self] = "none"
  /\ CanRLock(layoutMu)
  /\ layoutMu' = [layoutMu EXCEPT !.readers = @ \cup {self}]
  /\ clocal' = [clocal EXCEPT ![self].n = 1]
  /\ cpc' = [cpc EXCEPT ![self] = "ls_load"]
  /\ UNCHANGED <<serviceVars, fnVars, layoutSnap, catalogMu, catalogPayload, heap>>

\* return c.snapshot: the struct is copied out one field at a time
LS_Load(self) ==
  /\ cpc[self] = "ls_load"
  /\ clocal' = [clocal EXCEPT ![self].snap[LayoutFields[clocal[self].n]] = layoutSnap[LayoutFields[clocal[self].n]],
                               ![self].n = @ + 1]
  /\ cpc' = [cpc EXCEPT ![self] = IF clocal[self].n = Len(LayoutFields) THEN "ls_runlock" ELSE "ls_load"]
  /\ UNCHANGED <<serviceVars, fnVars, layoutMu, layoutSnap, catalogMu, catalogPayload, heap>>

\* defer c.mu.RUnlock()
LS_RUnlock(self) ==
  /\ cpc[self] = "ls_runlock"
  /\ layoutMu' = [layoutMu EXCEPT !.readers = @ \ {self}]
  /\ cpc' = [cpc EXCEPT ![self] = "ls_done"]
  /\ UNCHANGED <<serviceVars, fnVars, layoutSnap, catalogMu, catalogPayload, heap, clocal>>

\* a request serves the index: SearchCatalog.Snapshot, c.mu.RLock()
CS_RLock(self) ==
  /\ cpc[self] = "none"
  /\ CanRLock(catalogMu)
  /\ catalogMu' = [catalogMu EXCEPT !.readers = @ \cup {self}]
  /\ cpc' = [cpc EXCEPT ![self] = "cs_len"]
  /\ UNCHANGED <<serviceVars, fnVars, layoutMu, layoutSnap, catalogPayload, heap, clocal>>

\* if len(c.payload) == 0 { return nil }
CS_Len(self) ==
  /\ cpc[self] = "cs_len"
  /\ clocal' = [clocal EXCEPT ![self].ret = 0, ![self].got = <<>>]
  /\ cpc' = [cpc EXCEPT ![self] = IF catalogPayload.len = 0 THEN "cs_runlock" ELSE "cs_make"]
  /\ UNCHANGED <<serviceVars, fnVars, layoutMu, layoutSnap, catalogMu, catalogPayload, heap>>

\* clone := make(json.RawMessage, len(c.payload))
CS_Make(self) ==
  /\ cpc[self] = "cs_make"
  /\ heap' = Append(heap, [i \in 1..catalogPayload.len |-> 0])
  /\ clocal' = [clocal EXCEPT ![self].arr = Len(heap) + 1]
  /\ cpc' = [cpc EXCEPT ![self] = "cs_copy_begin"]
  /\ UNCHANGED <<serviceVars, fnVars, layoutMu, layoutSnap, catalogMu, catalogPayload>>

\* copy(clone, c.payload): the source slice is read, the shorter length counts
CS_CopyBegin(self) ==
  /\ cpc[self] = "cs_copy_begin"
  /\ LET count == IF Len(heap[clocal[self].arr]) <= catalogPayload.len
                  THEN Len(heap[clocal[self].arr]) ELSE catalogPayload.len
     IN  /\ clocal' = [clocal EXCEPT ![self].ptr = catalogPayload.ptr, ![self].n = 0, ![self].len = count]
         /\ cpc' = [cpc EXCEPT ![self] = IF count = 0 THEN "cs_return" ELSE "cs_copy"]
  /\ UNCHANGED <<serviceVars, fnVars, layoutMu, layoutSnap, catalogMu, catalogPayload, heap>>

\* one byte of the copy; a byte outside every array reads as 0
CS_Copy(self) ==
  /\ cpc[self] = "cs_copy"
  /\ LET from == clocal[self].ptr
         i == clocal[self].n + 1
     IN  heap' = [heap EXCEPT ![clocal[self].arr][i] =
                    IF from \in 1..Len(heap) /\ i \in 1..Len(heap[from]) THEN heap[from][i] ELSE 0]
  /\ clocal' = [clocal EXCEPT ![self].n = @ + 1]
  /\ cpc' = [cpc EXCEPT ![self] = IF clocal[self].n + 1 = clocal[self].len THEN "cs_return" ELSE "cs_copy"]
  /\ UNCHANGED <<serviceVars, fnVars, layoutMu, layoutSnap, catalogMu, catalogPayload>>

\* return clone
CS_Return(self) ==
  /\ cpc[self] = "cs_return"
  /\ clocal' = [clocal EXCEPT ![self].ret = clocal[self].arr, ![self].got = heap[clocal[self].arr]]
  /\ cpc' = [cpc EXCEPT ![self] = "cs_runlock"]
  /\ UNCHANGED <<serviceVars, fnVars, layoutMu, layoutSnap, catalogMu, catalogPayload, heap>>

\* defer c.mu.RUnlock()
CS_RUnlock(self) ==
  /\ cpc[self] = "cs_runlock"
  /\ catalogMu' = [catalogMu EXCEPT !.readers = @ \ {self}]
  /\ cpc' = [cpc EXCEPT ![self] = "cs_done"]
  /\ UNCHANGED <<serviceVars, fnVars, layoutMu, layoutSnap, catalogPayload, heap, clocal>>

NextCache ==
  \/ \E u \in CacheUpdaters :
        \/ LU_Lock(u) \/ LU_Store(u) \/ LU_Unlock(u)
        \/ CU_Lock(u) \/ CU_Alloc(u) \/ CU_Copy(u) \/ CU_StorePtr(u) \/ CU_StoreLen(u) \/ CU_Unlock(u)
  \/ \E r \in CacheReaders :
        \/ LS_RLock(r) \/ LS_Load(r) \/ LS_RUnlock(r)
        \/ CS_RLock(r) \/ CS_Len(r) \/ CS_Make(r) \/ CS_CopyBegin(r) \/ CS_Copy(r)
        \/ CS_Return(r) \/ CS_RUnlock(r)

InitCache == ServiceIdle /\ FnIdle /\ CacheIdle

SpecCache == InitCache /\ [][NextCache]_vars

\* ------------------------------------------------- base-36 integers
\* An integer below 2^55 is held as three limbs <<a, b, c>> of 18 bits,
\* a * 2^36 + b * 2^18 + c, so that Go's int and JavaScript's Number can
\* both be followed past 2^53, where a Number stops holding every integer.
Limb == 2^18

Zero == <<0, 0, 0>>

FromInt(k) == <<0, k \div Limb, k % Limb>>

Add(x, y) ==
  LET c == x[3] + y[3]
      b == x[2] + y[2] + (c \div Limb)
  IN  <<x[1] + y[1] + (b \div Limb), b % Limb, c % Limb>>

\* x - y for x >= y
Sub(x, y) ==
  LET c == x[3] - y[3]
      bc == IF c < 0 THEN 1 ELSE 0
      b == x[2] - y[2] - bc
      bb == IF b < 0 THEN 1 ELSE 0
  IN  <<x[1] - y[1] - bb, b + bb * Limb, c + bc * Limb>>

Less(x, y) ==
  \/ x[1] < y[1]
  \/ x[1] = y[1] /\ x[2] < y[2]
  \/ x[1] = y[1] /\ x[2] = y[2] /\ x[3] < y[3]

\* 2^53: every integer up to it is a Number, above it only every second
\* one (every fourth one from 2^54)
TwoTo53 == <<2^17, 0, 0>>

\* the Number nearest to the exact result of an operation, ties to even
RoundDouble(x) ==
  LET g == IF x[1] < 2^17 THEN 1 ELSE IF x[1] < 2^18 THEN 2 ELSE 4
      r == x[3] % g
      down == Sub(x, FromInt(r))
      up == Add(down, FromInt(g))
  IN  IF r = 0 THEN x
      ELSE IF 2 * r < g THEN down
      ELSE IF 2 * r > g THEN up
      ELSE IF down[3] % (2 * g) = 0 THEN down ELSE up

digits == <<"0", "1", "2", "3", "4", "5", "6", "7", "8", "9", "a", "b", "c", "d", "e", "f", "g", "h",
            "i", "j", "k", "l", "m", "n", "o", "p", "q", "r", "s", "t", "u", "v", "w", "x", "y", "z">>

\* digits.indexOf(ch)
IndexOf(ch) == IF \E i \in 1..Len(digits) : digits[i] = ch
               THEN (CHOOSE i \in 1..Len(digits) : digits[i] = ch) - 1
               ELSE -1

\* a digit put behind the others
PushDigitBack(d, buf) == buf \o <<d>>

\* buf = append([]byte{digits[remainder]}, buf...)
PushDigit(d, buf) == <<d>> \o buf

\* for value > 0 { remainder := value % 36; ...; value /= 36 }, the
\* division done limb by limb
RECURSIVE encodeLoop(_, _)
encodeLoop(value, buf) ==
  LET tb == (value[1] % 36) * Limb + value[2]
      tc == (tb % 36) * Limb + value[3]
      remainder == tc % 36
  IN  IF value = Zero THEN buf
      ELSE encodeLoop(<<value[1] \div 36, tb \div 36, tc \div 36>>, PushDigit(digits[remainder + 1], buf))

encodeInt(value) == IF value = Zero THEN <<"0">> ELSE encodeLoop(value, <<>>)

\* the loop of encodePositions from index i on
RECURSIVE encodeFrom(_, _, _)
encodeFrom(positions, i, prevPos) ==
  IF i > Len(positions) THEN <<>>
  ELSE (IF i > 1 THEN <<".">> ELSE <<>>)
       \o encodeInt(IF i > 1 THEN Sub(positions[i], prevPos) ELSE positions[i])
       \o encodeFrom(positions, i + 1, positions[i])

encodePositions(positions) == IF Len(positions) = 0 THEN <<>> ELSE encodeFrom(positions, 1, Zero)

\* result = result * 36 + idx, each operation rounded to a Number
DecodeDigit(acc, ch) ==
  LET c == acc[3] * 36
      b == acc[2] * 36 + (c \div Limb)
      times36 == <<acc[1] * 36 + (b \div Limb), b % Limb, c % Limb>>
  IN  RoundDouble(Add(RoundDouble(times36), FromInt(IndexOf(ch))))

\* the decoder at the start of its loops
DecoderAt(parts) == [parts |-> parts, rest |-> <<>>, acc |-> Zero, total |-> Zero, positions |-> <<>>]

\* the index builder encodes a length or the positions of a posting:
\* small integers, the powers of 36 and their neighbours, the integers
\* around 2^53, and strictly increasing lists of such positions
InitCodec ==
  LET ints == {FromInt(k) : k \in 0..MaxSmall}
                \cup {FromInt(36^e + d) : e \in 2..3, d \in {-1, 0, 1}}
                \cup {Sub(TwoTo53, FromInt(d)) : d \in 0..MaxNear}
                \cup {Add(TwoTo53, FromInt(d)) : d \in 0..MaxNear}
      pool == {FromInt(k) : k \in {0, 1, 35, 36, 37}}
                \cup {Sub(TwoTo53, FromInt(1))}
                \cup {Add(TwoTo53, FromInt(d)) : d \in 0..MaxNear}
      lists == UNION {{l \in [1..n -> pool] : \A i \in 1..(n - 1) : Less(l[i], l[i + 1])} :
                        n \in 0..MaxPositions}
  IN  /\ ServiceIdle
      /\ CacheIdle
      /\ fnIn \in {[kind |-> "int", vals |-> <<n>>] : n \in ints}
                  \cup {[kind |-> "positions", vals |-> l] : l \in lists}
      /\ fnOut = <<>>
      /\ fnStep = "encode"

\* encodeInt(value) or encodePositions(positions)
Codec_Encode ==
  /\ fnStep = "encode"
  /\ fnOut' = <<IF fnIn.kind = "int" THEN encodeInt(fnIn.vals[1]) ELSE encodePositions(fnIn.vals)>>
  /\ fnStep' = "decode"
  /\ UNCHANGED <<serviceVars, cacheVars, fnIn>>

\* the search page decodes what it was sent: decodeInt(value), or
\* decodePositions(encoded), which answers [] for the empty string and
\* else decodes the parts of encoded.split(".")
Codec_Decode ==
  /\ fnStep = "decode"
  /\ IF fnIn.kind = "int"
     THEN fnOut' = Append(fnOut, DecoderAt(<<fnOut[1]>>)) /\ fnStep' = "part"
     ELSE IF fnOut[1] = <<>>
     THEN fnOut' = fnOut \o <<DecoderAt(<<>>), <<>>>> /\ fnStep' = "done"
     ELSE fnOut' = Append(fnOut, DecoderAt(Split(fnOut[1], "."))) /\ fnStep' = "part"
  /\ UNCHANGED <<serviceVars, cacheVars, fnIn>>

\* decodeInt(part) up to its loop: String(value).trim().toLowerCase(),
\* 0 at once for an empty string and for a foreign character
Codec_PartBegin ==
  /\ fnStep = "part"
  /\ LET normalized == ToLower(TrimSpace(fnOut[2].parts[1]))
     IN  IF normalized = <<>> \/ \E i \in 1..Len(normalized) : IndexOf(normalized[i]) < 0
         THEN /\ fnOut' = [fnOut EXCEPT ![2].acc = Zero, ![2].rest = <<>>]
              /\ fnStep' = "part_end"
         ELSE /\ fnOut' = [fnOut EXCEPT ![2].acc = Zero, ![2].rest = normalized]
              /\ fnStep' = "digit"
  /\ UNCHANGED <<serviceVars, cacheVars, fnIn>>

\* for (const ch of normalized): one digit
Codec_Digit ==
  /\ fnStep = "digit"
  /\ fnOut' = [fnOut EXCEPT ![2].acc = DecodeDigit(fnOut[2].acc, fnOut[2].rest[1]),
                             ![2].rest = Tail(fnOut[2].rest)]
  /\ fnStep' = IF Len(fnOut[2].rest) = 1 THEN "part_end" ELSE "digit"
  /\ UNCHANGED <<serviceVars, cacheVars, fnIn>>

\* decodeInt returns its result; in decodePositions total += value;
\* positions.push(total), and after the last part the list is returned
Codec_PartEnd ==
  /\ fnStep = "part_end"
  /\ LET total == RoundDouble(Add(fnOut[2].total, fnOut[2].acc))
         positions == Append(fnOut[2].positions, total)
         decoder == [fnOut[2] EXCEPT !.total = total, !.positions = positions, !.parts = Tail(@)]
     IN  IF fnIn.kind = "int"
         THEN fnOut' = Append(fnOut, <<fnOut[2].acc>>) /\ fnStep' = "done"
         ELSE IF Len(fnOut[2].parts) = 1
         THEN fnOut' = <<fnOut[1], decoder, positions>> /\ fnStep' = "done"
         ELSE fnOut' = <<fnOut[1], decoder>> /\ fnStep' = "part"
  /\ UNCHANGED <<serviceVars, cacheVars, fnIn>>

NextCodec ==
  \/ Codec_Encode
  \/ Codec_Decode
  \/ Codec_PartBegin
  \/ Codec_Digit
  \/ Codec_PartEnd

SpecCodec == InitCodec /\ [][NextCodec]_vars

\* ------------------------------------------------ postings of a term
\* for (const ch of normalized) { ...; result = result * 36 + idx }
RECURSIVE decodeLoop(_, _)
decodeLoop(normalized, acc) ==
  IF normalized = <<>> THEN acc
  ELSE decodeLoop(Tail(normalized), DecodeDigit(acc, normalized[1]))

\* decodeInt(value) as one function: 0 for null, undefined, an empty
\* string and a string holding a character that is not a digit
decodeInt(value) ==
  LET normalized == ToLower(TrimSpace(value))
  IN  IF normalized = <<>> \/ \E i \in 1..Len(normalized) : IndexOf(normalized[i]) < 0
      THEN Zero
      ELSE decodeLoop(normalized, Zero)

\* parts.forEach((part) => { total += decodeInt(part); positions.push(total) })
RECURSIVE decodeParts(_, _)
decodeParts(parts, total) ==
  IF parts = <<>> THEN <<>>
  ELSE LET sum == RoundDouble(Add(total, decodeInt(parts[1])))
       IN  <<sum>> \o decodeParts(Tail(parts), sum)

decodePositions(encoded) ==
  IF encoded = <<>> THEN <<>> ELSE decodeParts(Split(encoded, "."), Zero)

\* the fields of entry.split(":"); a field that is missing is undefined,
\* which decodeInt takes for 0 and encodedPositions || "" for ""
decodePosting(entry) ==
  LET fields == Split(entry, ":")
      field(i) == IF i <= Len(fields) THEN fields[i] ELSE <<>>
  IN  [DocID |-> decodeInt(field(1)),
       TitleFreq |-> decodeInt(field(2)),
       SummaryFreq |-> decodeInt(field(3)),
       ContentFreq |-> decodeInt(field(4)),
       Positions |-> decodePositions(field(5))]

\* the count, '|', and the entries with ';' between them; the positions
\* and their ':' are written only for an entry that has positions
encodeTermEntries(entries) ==
  LET written(entry) ==
        encodeInt(entry.DocID) \o <<":">> \o encodeInt(entry.TitleFreq) \o <<":">>
          \o encodeInt(entry.SummaryFreq) \o <<":">> \o encodeInt(entry.ContentFreq)
          \o (IF Len(entry.Positions) > 0
              THEN <<":">> \o encodePositions(entry.Positions)
              ELSE <<>>)
  IN  encodeInt(FromInt(Len(entries))) \o <<"|">>
        \o Join([i \in 1..Len(entries) |-> written(entries[i])], ";")

\* buildSearchIndex hands over the postings of one term, sorted by
\* document id: every posting counts at least one occurrence, and its
\* positions are those of its content occurrences
InitTerm ==
  LET ids == {0, 1, 36}
      offsets == {0, 1, 37}
      positionLists == UNION {{l \in [1..n -> offsets] : \A i \in 1..(n - 1) : l[i] < l[i + 1]} :
                                n \in 0..MaxPositions}
      entries == {[DocID |-> FromInt(d), TitleFreq |-> FromInt(t), SummaryFreq |-> FromInt(m),
                   ContentFreq |-> FromInt(Len(l)),
                   Positions |-> [i \in 1..Len(l) |-> FromInt(l[i])]] :
                     <<d, t, m, l>> \in {q \in ids \X (0..1) \X (0..1) \X positionLists :
                                            q[2] + q[3] + Len(q[4]) > 0}}
  IN  /\ ServiceIdle
      /\ CacheIdle
      /\ fnIn \in UNION {{l \in [1..n -> entries] :
                            \A i \in 1..(n - 1) : Less(l[i].DocID, l[i + 1].DocID)} :
                         n \in 1..MaxPostings}
      /\ fnOut = <<>>
      /\ fnStep = "encode"

\* terms[term] = encodeTermEntries(entries)
Term_Encode ==
  /\ fnStep = "encode"
  /\ fnOut' = <<encodeTermEntries(fnIn)>>
  /\ fnStep' = "decode"
  /\ UNCHANGED <<serviceVars, cacheVars, fnIn>>

\* terms.set(term, decodeTerm(termSource[term])): the header is the part
\* before the first ';', the postings are decoded from the parts after it
Term_Decode ==
  /\ fnStep = "decode"
  /\ LET encoded == fnOut[1]
         parts == Split(encoded, ";")
         header == parts[1]
         rest == Tail(parts)
         expected == decodeInt(Split(header, ":")[1])
         postings == [i \in 1..Len(rest) |-> decodePosting(rest[i])]
     IN  fnOut' = <<encoded,
                    IF encoded = <<>> THEN <<>>
                    ELSE IF expected /= Zero /\ FromInt(Len(postings)) /= expected
                    THEN SubSeq(postings, 1, IF Less(expected, FromInt(Len(postings)))
                                              THEN expected[3] ELSE Len(postings))
                    ELSE postings>>
  /\ fnStep' = "done"
  /\ UNCHANGED <<serviceVars, cacheVars, fnIn>>

NextTerm ==
  \/ Term_Encode
  \/ Term_Decode

SpecTerm == InitTerm /\ [][NextTerm]_vars

\* --------------------------------------------- positions of a posting
maxPositionsPerDoc == 48

\* shouldIndexToken: a token of one byte is indexed only if it is a digit
shouldIndexToken(token) ==
  /\ token /= <<>>
  /\ Len(token) = 1 => IndexOf(token[1]) \in 0..9

\* a guard that lets one position too many in
HasRoomOffByOne(positions) == Len(positions) <= maxPositionsPerDoc

\* if len(entry.Positions) < maxPositionsPerDoc
HasRoom(positions) == Len(positions) < maxPositionsPerDoc

\* processField has split the plain text of a page into tokens: MaxTokens
\* of them, all the same word except at a few places near the start and
\* around the cap, where another word, a digit or a single letter may stand
InitIndex ==
  LET holes == {1, 2, maxPositionsPerDoc, maxPositionsPerDoc + 1, maxPositionsPerDoc + 2}
      tokens == {<<"g", "i", "t">>, <<"w", "i", "k", "i">>, <<"7">>, <<"a">>}
  IN  /\ ServiceIdle
      /\ CacheIdle
      /\ fnIn \in {[i \in 1..MaxTokens |-> IF i \in holes THEN h[i] ELSE <<"g", "i", "t">>] :
                     h \in [holes -> tokens]}
      /\ fnOut = [docTerms |-> <<>>, contentPos |-> 0, count |-> 0, next |-> 1]
      /\ fnStep = "content"

\* processField hands the next token of pg.PlainText to the callback if
\* shouldIndexToken accepts it; the callback counts the occurrence, stores
\* its position while there is room, and advances contentPos
Index_Token ==
  /\ fnStep = "content"
  /\ LET token == fnIn[fnOut.next]
         docTerms == fnOut.docTerms
         entry == IF token \in DOMAIN docTerms
                  THEN docTerms[token]
                  ELSE [DocID |-> 0, TitleFreq |-> 0, SummaryFreq |-> 0, ContentFreq |-> 0,
                        Positions |-> <<>>]
         counted == [entry EXCEPT !.ContentFreq = @ + 1,
                                  !.Positions = IF HasRoom(@) THEN Append(@, fnOut.contentPos)
                                                ELSE @]
     IN  fnOut' = IF shouldIndexToken(token)
                  THEN [docTerms |-> [t \in DOMAIN docTerms \cup {token} |->
                                        IF t = token THEN counted ELSE docTerms[t]],
                        contentPos |-> fnOut.contentPos + 1,
                        count |-> fnOut.count + 1,
                        next |-> fnOut.next + 1]
                  ELSE [fnOut EXCEPT !.next = @ + 1]
  /\ fnStep' = IF fnOut.next = Len(fnIn) THEN "done" ELSE "content"
  /\ UNCHANGED <<serviceVars, cacheVars, fnIn>>

SpecIndex == InitIndex /\ [][Index_Token]_vars

\* ------------------------------------------------------------ properties

\* Service.SearchIndex: the payload in memory, else search-index.json of the
\* output directory, else the empty index
SearchIndex ==
  IF searchPayload.set THEN searchPayload.src
  ELSE IF outputDir.exists /\ outputDir.index THEN outputDir.src
  ELSE EmptyTree

C2_OutputNeverMissing == [][outputDir.exists => outputDir'.exists]_vars

\* C3: the index served by SearchIndex describes the pages of the snapshot
\* at the output location
C3_IndexMatchesOutput == outputDir.exists => SearchIndex = outputDir.src

\* C4: a build that fails before promotion leaves no temporary directory and
\* has not touched the output location; a build of a repository without
\* tracked files fails
C4_FailedBuildLeavesNoTrace ==
  [][\A b \in Procs : (pc[b] \in BuildPcs \ {"b_rotate", "b_activate", "b_restore", "b_cleanup"} /\ pc'[b] /= pc[b]) =>
        /\ outputDir' = outputDir
        /\ pc'[b] \notin BuildPcs => ~temp'[b].exists
        /\ (pc[b] = "b_list" /\ \A x \in Paths : idx[x] = 0) => pc'[b] \notin BuildPcs]_vars

\* C4 witness: the startup build of a repository without tracked files has
\* returned and the snapshot published earlier is still in place
C4_Witness ==
  /\ pc[Starter] = "done" /\ head = <<>> /\ idx = EmptyTree
  /\ ~temp[Starter].exists /\ Complete(outputDir)

\* C5: a transaction that is rolled back with the repository-behind error
\* returns with HEAD at the commit that was HEAD when it started
C5_RollbackRestoresHead ==
  [][\A e \in Editors : (pc[e] = "rb_reset" /\ pc'[e] = "tx_unlock" /\ result'[e] = "behind")
        => head' = startHead[e]]_vars

\* C6: while a transaction holds the write lock no pull runs its git pull
\* or its rebuild
C6_NoPullDuringTransaction ==
  writeMu /= "free" =>
    \A t \in Pullers : pc[t] \notin ({"pl_revparse", "pl_ff", "pl_rebase", "pl_after"} \cup BuildPcs)

\* C7: at most one transaction is between taking and releasing the write
\* lock, and an editor holds the lock exactly while it is in its transaction
C7_OneTransaction ==
  /\ Cardinality({e \in Editors : (pc[e] \notin {"idle", "tx_lock", "done"})}) <= 1
  /\ \A e \in Editors : (pc[e] \notin {"idle", "tx_lock", "done"}) <=> writeMu = e

\* C7 witness: one request waits for the write lock while the other pushes
C7_Witness ==
  \E e \in Editors, f \in Editors : pc[e] = "push_cmd" /\ pc[f] = "tx_lock"

\* C8: at most one git command runs at a time, and the process running it
\* holds the repository mutex through all commands of its operation
C8_OneGitCommand ==
  LET gitCmdPcs == {"fresh_fetch", "fresh_revlist", "mv_cmd", "ci_add", "ci_add_update",
                    "ci_commit", "ci_stage_all", "ci_commit_retry", "b_list", "b_log",
                    "fin_fetch", "fin_revlist", "push_cmd", "rb_reset",
                    "pl_revparse", "pl_ff", "pl_rebase", "pl_after"}
  IN  /\ Cardinality({p \in Procs : pc[p] \in gitCmdPcs}) <= 1
      /\ \A p \in Procs : pc[p] \in gitCmdPcs => repoMu = p

\* C8 witness: a pull and a build wait for the mutex while a commit runs
C8_Witness ==
  \E e \in Editors, t \in Pullers :
    pc[e] = "ci_commit" /\ pc[t] \in {"pl_lock", "b_start", "b_render"}

\* C9: a transaction whose freshness check finds the remote ahead returns
\* the repository-behind error, and up to that point it has changed neither
\* the working tree, the index, HEAD, the remote nor the published output
C9_StaleAbortsUntouched ==
  [][\A e \in Editors :
       (pc[e] \in {"tx_lock", "fresh", "fresh_fetch", "fresh_revlist"} /\ pc'[e] /= pc[e]) =>
          /\ UNCHANGED <<wt, idx, head, headAt1, remote, outputDir, backupDir, searchPayload, temp>>
          /\ (pc[e] = "fresh_revlist" /\ ~IsPrefix(tracking, head)) =>
                (pc'[e] = "tx_unlock" /\ result'[e] = "behind")]_vars

\* C9 witness: a transaction returns repository-behind from the freshness
\* check (it never chose a path to commit)
C9_Witness ==
  \E e \in Editors : /\ pc[e] = "tx_unlock" /\ result[e] = "behind" /\ arg[e] = "-"
                     /\ ~IsPrefix(tracking, head)

\* C10: on success HEAD is exactly one commit ahead of the HEAD of the
\* start of the transaction
C10_OneCommitAhead ==
  [][\A e \in Editors : (pc[e] /= "tx_unlock" /\ pc'[e] = "tx_unlock" /\ result'[e] = "ok")
        => (Len(head') = Len(startHead[e]) + 1 /\ IsPrefix(startHead[e], head'))]_vars

\* ------------------------------------------- handleSave / handleRename
\* the sentinel errors errors.Is finds in the error a transaction returns
ErrorChain(res) ==
  IF res = "behind" THEN {"ErrRepositoryBehind"}
  ELSE IF res = "behind_rollback_failed" THEN {"ErrRepositoryBehind", "rollback failed"}
  ELSE IF res = "reserved" THEN {"ErrReservedPath"}
  ELSE IF res = "invalid" THEN {"ErrInvalidPath"}
  ELSE {}

\* the switch of handleSave and handleRename over the returned error
HandlerResponse(res) ==
  IF res = "ok" THEN [status |-> 200, message |-> "saved"]
  ELSE IF "ErrRepositoryBehind" \in ErrorChain(res)
       THEN [status |-> 409, message |-> "remote repository has newer revisions"]
  ELSE IF "ErrReservedPath" \in ErrorChain(res)
       THEN [status |-> 400, message |-> "The specified path is reserved and cannot be used"]
  ELSE IF "ErrInvalidPath" \in ErrorChain(res) THEN [status |-> 400, message |-> res]
  ELSE IF "ErrForbiddenRoute" \in ErrorChain(res)
       THEN [status |-> 403, message |-> "requested path is restricted"]
  ELSE [status |-> 500, message |-> res]

\* C11: a transaction whose compensating reset failed is answered
\* differently from an ordinary repository-behind conflict
C11_RollbackFailureDistinct ==
  \A e \in Editors :
    (pc[e] = "tx_unlock" /\ result[e] = "behind_rollback_failed")
       => HandlerResponse(result[e]) /= HandlerResponse("behind")

\* C12: a transaction starts its build only by a commit step that added a
\* commit, enters finalizeCommit (second remote-ahead check, push) only by
\* the last step of a successful build, starts git push only from Push's
\* lock, and never returns to a push after its push or rollback
C12_PushAfterCommitAndBuild ==
  [][LET finalizePcs == {"fin", "fin_fetch", "fin_revlist", "push_lock", "push_cmd"}
         afterPushPcs == {"rb_lock", "rb_reset", "tx_unlock", "done"}
     IN  \A e \in Editors :
           /\ (pc[e] \notin BuildPcs /\ pc'[e] \in BuildPcs) =>
                 (pc[e] \in {"ci_commit", "ci_commit_retry"} /\ Len(head') = Len(head) + 1)
           /\ (pc[e] \notin finalizePcs /\ pc'[e] \in finalizePcs) =>
                 (pc[e] = "b_cleanup" /\ pc'[e] = "fin")
           /\ (pc[e] /= "push_cmd" /\ pc'[e] = "push_cmd") => pc[e] = "push_lock"
           /\ pc[e] = "push_cmd" => pc'[e] \in afterPushPcs \cup {"push_cmd"}
           /\ pc[e] \in afterPushPcs => pc'[e] \in afterPushPcs]_vars

\* C12 witness: a push is running after the commit and the rebuild
C12_Witness ==
  \E e \in Editors : /\ pc[e] = "push_cmd" /\ Len(head) > Len(startHead[e])
                     /\ Complete(outputDir)

\* C14: SavePage answers the reserved-path error only for a reserved name at
\* which no file exists, and then nothing is written, staged or committed;
\* no save creates a file at a reserved name, and a save of an existing file
\* at a reserved name is not rejected as reserved
C14_ReservedPathRejected ==
  [][\A e \in Editors : (pc[e] = "sp_mutate" /\ pc'[e] /= pc[e]) =>
        /\ result'[e] = "reserved" =>
              /\ isReservedPath(FileName[arg'[e]]) /\ wt[arg'[e]] = 0
              /\ UNCHANGED <<wt, idx, head, remote>>
        /\ \A x \in EditPaths : (isReservedPath(FileName[x]) /\ wt[x] = 0) => wt'[x] = 0]_vars

\* C14 witness: a save of the reserved name is rejected after the file that
\* had that name was renamed away, one commit after the base commit
C14_Witness ==
  \E e \in Editors : /\ pc[e] = "tx_unlock" /\ result[e] = "reserved"
                     /\ wt[arg[e]] = 0 /\ Len(head) > 1

C13_PullChangedIffHeadMoved ==
  /\ [](\A t \in Pullers : (pc[t] = "pl_after" /\ IsPrefix(remote, prev[t])) => head = prev[t])
  /\ [][\A t \in Pullers :
          /\ (pc[t] = "pl_after" /\ pc'[t] /= pc[t]) =>
                IF head = prev[t] THEN pc'[t] = "idle" ELSE pc'[t] = "b_start"
          /\ (pc[t] \notin BuildPcs /\ pc'[t] \in BuildPcs) =>
                (pc[t] = "pl_after" /\ head /= prev[t])]_vars

\* C13 witness: the first pull has brought the remote commit, the second
\* pull finds nothing new and HEAD is where it was
C13_Witness ==
  \E t \in Pullers : /\ pullCount = 2 /\ pc[t] = "pl_after" /\ head = prev[t]
                     /\ remoteCount = 1 /\ IsPrefix(remote, head)

\* slash-separated and relative, no null byte, no empty, "." or ".."
\* segment, no segment starting with '-'
WellFormedPath(pth) ==
  /\ pth /= <<>> /\ pth[1] /= "/" /\ pth[Len(pth)] /= "/"
  /\ \A i \in 1..Len(pth) : pth[i] /= "NUL" /\ pth[i] /= "\\"
  /\ \A i \in 1..(Len(pth) - 1) : ~(pth[i] = "/" /\ pth[i + 1] = "/")
  /\ \A i \in {k \in 1..Len(pth) : k = 1 \/ pth[k - 1] = "/"} :
        /\ pth[i] /= "-"
        /\ ~(pth[i] = "." /\ (i = Len(pth) \/ pth[i + 1] = "/"))
        /\ ~(/\ pth[i] = "." /\ i < Len(pth) /\ pth[i + 1] = "."
             /\ (i + 1 = Len(pth) \/ pth[i + 2] = "/"))

\* C15 as stated: an accepted path is well formed and ends in ".md"
C15_AcceptedPathEndsInMd ==
  (fnStep \in {"renormalize", "done"} /\ fnOut[1].ok) =>
     (WellFormedPath(fnOut[1].path) /\ HasSuffix(fnOut[1].path, Str_md))

\* C15 amended: normalizeRelPath answers the invalid-path error or a well
\* formed path that ends in .md in any letter case
C15_AcceptedPathWellFormed ==
  fnStep \in {"renormalize", "done"} =>
     IF fnOut[1].ok
     THEN /\ WellFormedPath(fnOut[1].path)
          /\ Len(fnOut[1].path) >= 3
          /\ ToLower(SubSeq(fnOut[1].path, Len(fnOut[1].path) - 2, Len(fnOut[1].path))) = Str_md
     ELSE fnOut[1].err = "invalid path"

\* C15 witness: a path with backslash, repeated slash and blank is accepted
C15_Witness ==
  /\ fnStep = "renormalize" /\ fnOut[1].ok
  /\ \E i \in 1..Len(fnIn) : fnIn[i] = "\\"
  /\ \E i \in 1..(Len(fnIn) - 1) : fnIn[i] = "/" /\ fnIn[i + 1] = "/"

\* C16: normalizing an accepted path again succeeds and changes nothing
C16_NormalizeIdempotent ==
  (fnStep = "done" /\ fnOut[1].ok) =>
     (Len(fnOut) = 2 /\ fnOut[2].ok /\ fnOut[2].path = fnOut[1].path)

\* C18: the context of every git command has a deadline no later than the
\* start of the operation plus the command timeout and no later than the
\* caller's deadline, and the command has ended by then
C18_CommandDeadlineBounded ==
  /\ fnStep \in {"command", "done"} =>
        /\ command(fnOut[1]).has
        /\ command(fnOut[1]).at <= fnIn.start + CommandTimeout(fnIn.configured)
        /\ fnIn.ctx.has => command(fnOut[1]).at <= fnIn.ctx.at
  /\ fnStep = "done" => fnOut[2].end <= fnIn.start + CommandTimeout(fnIn.configured)

\* C19: a finished layout reader holds four fragments of one Update (or the
\* zero snapshot), a finished catalog reader holds nil or the whole payload
\* of one Update, and the array it was given still holds what was returned
C19_SnapshotsAreWhole ==
  \A r \in CacheReaders :
     /\ cpc[r] = "ls_done" =>
           /\ clocal[r].snap.Header \in {0} \cup {UpdateId(u, k) : u \in CacheUpdaters, k \in 1..MaxUpdates}
           /\ clocal[r].snap.Footer = clocal[r].snap.Header
           /\ clocal[r].snap.ServerFooter = clocal[r].snap.Header
           /\ clocal[r].snap.Sidebar = clocal[r].snap.Header
     /\ cpc[r] = "cs_done" =>
           /\ clocal[r].got \in {<<>>} \cup {PayloadOf(UpdateId(u, k)) : u \in CacheUpdaters, k \in 1..MaxUpdates}
           /\ clocal[r].ret = 0 => clocal[r].got = <<>>
           /\ clocal[r].ret /= 0 => heap[clocal[r].ret] = clocal[r].got

\* C19 witness: one reader got the fragments of an update, the other the
\* two-byte payload of one, and a later update has replaced both since
C19_Witness ==
  \E r1, r2 \in CacheReaders :
     /\ cpc[r1] = "ls_done" /\ clocal[r1].snap.Header /= 0
     /\ layoutSnap.Header /= clocal[r1].snap.Header
     /\ cpc[r2] = "cs_done" /\ Len(clocal[r2].got) = 2
     /\ catalogPayload.ptr /= 0 /\ heap[catalogPayload.ptr] /= clocal[r2].got

\* C17 as stated: what is decoded is what was encoded, for every
\* non-negative integer and every strictly increasing position list
C17_RoundTripAllIntegers ==
  fnStep = "done" => fnOut[3] = fnIn.vals

\* C17 amended: the round trip holds for integers and positions up to 2^53
C17_RoundTripUpTo2Pow53 ==
  (fnStep = "done" /\ \A i \in 1..Len(fnIn.vals) : ~Less(TwoTo53, fnIn.vals[i])) =>
     fnOut[3] = fnIn.vals

\* C17 witness: a list of three positions, the last one 2^53 and stored as
\* a gap of several digits, came back whole
C17_Witness ==
  /\ fnStep = "done" /\ fnIn.kind = "positions"
  /\ Len(fnIn.vals) = 3 /\ fnIn.vals[3] = TwoTo53
  /\ Len(fnOut[1]) > 10
  /\ fnOut[3] = fnIn.vals

\* C22: the commit a save transaction creates changes the saved path only;
\* nothing an earlier transaction left staged is part of it
C22_CommitHoldsOwnChangeOnly ==
  [][\A e \in Editors :
       (op[e] = "save" /\ pc[e] \in {"ci_commit", "ci_commit_retry"} /\ pc'[e] = "b_start")
          => \A pr \in head'[Len(head')] : pr[1] = arg[e]]_vars

\* C23: from its commit to its rollback no step of another process moves
\* HEAD or the reflog, and the rollback puts HEAD back at the commit that
\* was HEAD when the transaction started
C23_NoHeadMoveBeforeRollback ==
  [][\A e \in Editors :
       /\ (/\ pc[e] \in BuildPcs \cup {"fin", "fin_fetch", "fin_revlist", "push_lock",
                                       "push_cmd", "rb_lock", "rb_reset"}
           /\ pc'[e] = pc[e]) => (head' = head /\ headAt1' = headAt1)
       /\ (pc[e] = "rb_reset" /\ pc'[e] = "tx_unlock" /\ result'[e] = "behind")
             => (head' = startHead[e] /\ headAt1 = <<startHead[e]>>)]_vars

\* C25: with a remote configured, a transaction that returns after its
\* commit step leaves no commit on the local branch that the remote lacks
\* (a failed reset aside)
C25_NoUnpushedCommitOnReturn ==
  [][\A e \in Editors :
       (/\ hasRemote
        /\ pc[e] \in BuildPcs \cup {"fin", "fin_fetch", "fin_revlist", "push_cmd", "rb_reset"}
        /\ pc'[e] = "tx_unlock"
        /\ result'[e] /= "behind_rollback_failed") => IsPrefix(head', remote')]_vars

\* C26: when a transaction returns repository-behind after its rollback,
\* every page of the published snapshot and of the served search index has
\* the content of a commit reachable from HEAD
C26_RolledBackEditNotPublished ==
  [][\A e \in Editors :
       (pc[e] = "rb_reset" /\ pc'[e] = "tx_unlock" /\ result'[e] = "behind") =>
          \A x \in Paths :
             /\ outputDir'.exists =>
                   \E k \in 0..Len(head') : outputDir'.src[x] = TreeOf(SubSeq(head', 1, k))[x]
             /\ searchPayload'.set =>
                   \E k \in 0..Len(head') : searchPayload'.src[x] = TreeOf(SubSeq(head', 1, k))[x]]_vars

\* C27: a save that returns an error from the checks before its commit step
\* (path, route, reserved name, commit message) leaves the working tree as
\* it was
C27_RejectedSaveLeavesFile ==
  [][\A e \in Editors :
       (op[e] = "save" /\ pc[e] = "sp_mutate" /\ pc'[e] = "tx_unlock") => wt' = wt]_vars

\* C30: the search page gets back the postings the index builder encoded:
\* as many, in the same order, with the same document id, frequencies and
\* positions
C30_TermRoundTrip ==
  fnStep = "done" => fnOut[2] = fnIn

\* C21: a posting stores at most 48 content positions; they are the
\* zero-based positions, among the content tokens of the page, of the
\* first min(48, ContentFreq) occurrences of the term, in strictly
\* increasing order; ContentFreq counts every occurrence
C21_PositionsOfFirstOccurrences ==
  LET seen == SelectSeq(SubSeq(fnIn, 1, fnOut.next - 1), shouldIndexToken)
  IN  \A term \in DOMAIN fnOut.docTerms :
         LET entry == fnOut.docTerms[term]
             stored == Len(entry.Positions)
             occurrences == {i \in 1..Len(seen) : seen[i] = term}
         IN  /\ stored <= 48
             /\ entry.ContentFreq = Cardinality(occurrences)
             /\ stored = IF entry.ContentFreq < 48 THEN entry.ContentFreq ELSE 48
             /\ \A k \in 1..stored :
                   /\ entry.Positions[k] + 1 \in occurrences
                   /\ Cardinality({i \in occurrences : i < entry.Positions[k] + 1}) = k - 1
             /\ \A k \in 1..(stored - 1) : entry.Positions[k] < entry.Positions[k + 1]

\* C21 witness: a page was indexed in which a word stands more than 48
\* times, behind a single letter that is not indexed: the word's posting
\* counts them all and holds 48 positions, the first of them 1, not 0
C21_Witness ==
  /\ fnStep = "done"
  /\ fnOut.count < Len(fnIn)
  /\ \E term \in DOMAIN fnOut.docTerms :
        /\ fnOut.docTerms[term].ContentFreq > 48
        /\ Len(fnOut.docTerms[term].Positions) = 48
        /\ fnOut.docTerms[term].Positions[1] = 1

\* C24: after a rollback the repository does not stay behind its remote:
\* with the rejected edit still in index and work tree, a later pull
\* brings HEAD up to the remote head, so that a retried save passes the
\* freshness check
C24_PullCatchesUpAfterRollback ==
  RemoteAheadLocked(tracking, head) ~> IsPrefix(remote, head)

\* C28: once a background pull has moved HEAD, the published snapshot
\* comes to show the pages of the pulled commit as that commit has them,
\* even if the rebuild of that pull failed, since later pulls make up for it
C28_SnapshotFollowsPulledHead ==
  (Len(head) > 1) ~>
     (outputDir.exists /\ \A pr \in head[Len(head)] : outputDir.src[pr[1]] = pr[2])

====
